---- MODULE Spec2Model ----
(***************************************************************************)
(* LAN Insight monitoring engine: the alert manager (AlertManager), the    *)
(* alerts table of the database (DatabaseManager), the monitoring service  *)
(* (MonitoringService) and the network scanner (NetworkScanner), as state  *)
(* machines.  Every async method is split at its await points: the part    *)
(* that runs synchronously when the method is called is one action, the    *)
(* continuation that runs when the awaited database call or probe settles  *)
(* is another.                                                             *)
(***************************************************************************)
EXTENDS Integers, Sequences, FiniteSets, TLC

VARIABLES
  alerts,         \* the alert objects that are reachable, by id
  activeAlerts,   \* AlertManager.activeAlerts: the ids that are keys of the Map
  alertHistory,   \* AlertManager.alertHistory: sequence of ids
  nextId,         \* the next id uuidv4() mints
  dbAlerts,       \* the rows of the alerts table, by id
  pending,        \* database calls the alert manager is awaiting
  autoQueue,      \* autoResolveAlerts: the ids of alertsToResolve not yet handled
  emitted,        \* number of emit() calls of each event
  broadcasts,     \* number of broadcastToClients() calls of each type
  dbFailures,     \* number of database calls that failed
  createCalls,    \* number of createAlert calls the concurrent callers issued, by key
  currentDevices, \* MonitoringService.currentDevices: ip -> device
  deviceOrder,    \* the order of the keys of currentDevices
  dbDevices,      \* the rows of the devices table, by id
  isRunning,      \* MonitoringService.isRunning
  monitoringTimer, \* whether the setInterval timer is armed
  scanInProgress, \* MonitoringService.scanInProgress
  ticks,          \* number of times the timer has fired
  cycles,         \* the performMonitoringCycle calls in flight, by number
  isScanning,     \* NetworkScanner.isScanning
  scans,          \* the scanRange calls, by number
  response,       \* the last response of the scan routes
  dbScanHistory,  \* the rows of the scan_history table
  webSocketClients, \* MonitoringService.webSocketClients
  readyState,     \* the condition of each WebSocket
  received,       \* number of broadcast messages each WebSocket was sent
  deviceCount,    \* number of ids uuidv4() has minted for devices
  initialized,    \* whether initialize() has loaded the devices
  now,            \* the time new Date() and CURRENT_TIMESTAMP give
  refreshInterval, \* MonitoringService.refreshInterval, in seconds
  thresholds,     \* MonitoringService.thresholds
  dbConfiguration, \* the rows of the configuration table: key -> value
  timers,         \* the intervals of the timers setInterval has armed
  armedTimers,    \* number of setInterval timers that are not cleared
  cleanupTask,    \* MonitoringService.cleanupTask: the cron task of the maintenance
  dbClosed,       \* whether DatabaseManager.close() has been called
  initializing,   \* whether initialize() is awaiting its start()
  dbMetrics,      \* the rows of the metrics table, in the order of their ids
  saving          \* the saveMetrics call in flight: its statement and its loop

monitorVars == <<isRunning, monitoringTimer, scanInProgress, ticks, cycles>>

vars == <<alerts, activeAlerts, alertHistory, nextId, dbAlerts, pending,
          autoQueue, emitted, broadcasts, dbFailures, createCalls,
          currentDevices, deviceOrder, dbDevices, isRunning, monitoringTimer, scanInProgress,
          ticks, cycles, isScanning, scans, response, dbScanHistory,
          webSocketClients, readyState, received, deviceCount, initialized, now,
          refreshInterval, thresholds, dbConfiguration, timers, armedTimers,
          cleanupTask, dbClosed, initializing, dbMetrics, saving>>

scanVars == <<isScanning, scans, response, dbScanHistory>>

clientVars == <<webSocketClients, readyState, received>>

bootVars == <<deviceCount, initialized>>

stopVars == <<armedTimers, cleanupTask, dbClosed, initializing>>

metricVars == <<dbMetrics, saving>>

configVars == <<refreshInterval, thresholds, dbConfiguration, timers, stopVars,
                metricVars>>

\* No saveMetrics call is in flight.
NoBatch == [device_id |-> "none", metrics |-> <<>>, idx |-> 0, base |-> 0]

\* No time: a null timestamp.
NoTime == 0

----------------------------------------------------------------------------
(* Bounds of the model *)

MaxAlerts == 2       \* ids uuidv4() can mint
MaxOccurrence == 2   \* cap on occurrenceCount
MaxCalls == 3        \* concurrent createAlert calls per key
MaxInFlight == 2     \* database calls the alert manager awaits at once
MaxDbFailures == 2   \* database calls that fail
MaxTicks == 1        \* firings of the monitoring timer
MaxCycles == 2       \* monitoring cycles in flight at once
MaxScans == 2        \* scans the scan route starts
MaxPublish == 2      \* broadcasts to the subscribed WebSockets

----------------------------------------------------------------------------
(* Data *)

NoAlert == 0

DeviceIds == {"localhost", "r1"}

\* The WebSocket connections.
Clients == {"w1", "w2", "w3"}

LocalIp == "127.0.0.1"

RemoteIp == "192.168.1.50"

DeviceIdOf(ip) == IF ip = LocalIp THEN "localhost" ELSE "r1"

IpOf(id) == IF id = "localhost" THEN LocalIp ELSE RemoteIp

\* The community of a device at start-up: createLocalhostDevice gives the local
\* device "local", saveDevice defaults the others to "public".
CommunityOf(id) == IF id = "localhost" THEN "local" ELSE "public"

AlertTypes == {"cpu", "memory", "disk", "network", "offline"}

Severities == {"warning", "critical"}

EventTypes ==
  {"alertCreated", "alertAcknowledged", "alertResolved", "alertDeleted",
   "scanStarted", "scanProgress", "hostDiscovered", "scanCompleted",
   "scanStopped", "scanError", "monitoringUpdate", "hostOnline", "hostOffline"}

\* The events MonitoringService.setupEventListeners forwards to the clients.
Forwarded ==
  {"scanStarted", "scanProgress", "hostDiscovered", "alertCreated", "alertResolved"}

ZeroCount == [e \in EventTypes |-> 0]

Range(s) == {s[i] : i \in DOMAIN s}

Min(S) == CHOOSE x \in S : \A y \in S : x <= y

RECURSIVE SortedSeq(_)
SortedSeq(S) == IF S = {} THEN <<>> ELSE <<Min(S)>> \o SortedSeq(S \ {Min(S)})

Remove(f, k) == [i \in DOMAIN f \ {k} |-> f[i]]

----------------------------------------------------------------------------
(* The data of the alert manager, the database and the device registry, as  *)
(* one record S that the operators below transform: S.alerts, S.active,     *)
(* S.history, S.nextId, S.db (the alerts table), S.emitted, S.broadcasts,   *)
(* S.devices and S.order (currentDevices), S.dbDevices (the devices table). *)

AlertState ==
  [alerts |-> alerts, active |-> activeAlerts, history |-> alertHistory,
   nextId |-> nextId, db |-> dbAlerts, emitted |-> emitted,
   broadcasts |-> broadcasts, devices |-> currentDevices, order |-> deviceOrder,
   now |-> now,
   dbDevices |-> dbDevices]

SetAlertState(S) ==
  /\ alerts' = S.alerts
  /\ activeAlerts' = S.active
  /\ alertHistory' = S.history
  /\ nextId' = S.nextId
  /\ dbAlerts' = S.db
  /\ emitted' = S.emitted
  /\ broadcasts' = S.broadcasts
  /\ currentDevices' = S.devices
  /\ deviceOrder' = S.order
  /\ dbDevices' = S.dbDevices

\* emit(ev): the listeners run synchronously; the forwarded events are broadcast.
Emit(S, ev) ==
  [S EXCEPT !.emitted[ev] = @ + 1,
            !.broadcasts[ev] = IF ev \in Forwarded THEN @ + 1 ELSE @]

\* A mutant of Matches: the test of the acknowledged flag is inverted.
MatchesAcknowledged(a, d, t, s) ==
  /\ a.deviceId = d
  /\ a.type = t
  /\ a.severity = s
  /\ a.acknowledged
  /\ ~a.resolved

Matches(a, d, t, s) ==
  /\ a.deviceId = d
  /\ a.type = t
  /\ a.severity = s
  /\ ~a.acknowledged
  /\ ~a.resolved

\* A mutant of FindSimilarAlert: nothing is ever found.
FindNothing(S, d, t, s) == NoAlert

\* The first alert of the Map (ids are inserted in increasing order) that matches.
FindSimilarAlert(S, d, t, s) ==
  LET found == {i \in S.active : Matches(S.alerts[i], d, t, s)}
  IN IF found = {} THEN NoAlert ELSE Min(found)

NewAlert(id, d, t, s) ==
  [id |-> id, deviceId |-> d, type |-> t, severity |-> s,
   acknowledged |-> FALSE, resolved |-> FALSE, occurrenceCount |-> 1,
   createdAt |-> NoTime, acknowledgedAt |-> NoTime, resolvedAt |-> NoTime]

\* createAlert up to its await: the existing alert is counted, or a new one is
\* put in the Map.
CreateAlertSync(S, d, t, s) ==
  LET e == FindSimilarAlert(S, d, t, s)
  IN IF e # NoAlert
     THEN [S EXCEPT !.alerts[e].occurrenceCount = @ + 1]
     ELSE [S EXCEPT !.alerts = S.alerts @@
                               (S.nextId :> [NewAlert(S.nextId, d, t, s)
                                               EXCEPT !.createdAt = S.now]),
                    !.active = S.active \cup {S.nextId},
                    !.nextId = S.nextId + 1]

\* saveAlert: INSERT OR REPLACE of the row, with the columns not named at their
\* defaults.
DbSaveAlert(S, id, a) ==
  [S EXCEPT !.db = [i \in DOMAIN S.db \cup {id} |->
                     IF i = id
                     THEN [device_id |-> a.deviceId, type |-> a.type,
                           severity |-> a.severity, acknowledged |-> FALSE,
                           resolved |-> FALSE, created_at |-> S.now,
                           acknowledged_at |-> NoTime, resolved_at |-> NoTime]
                     ELSE S.db[i]]]

DbAcknowledgeAlert(S, id) ==
  IF id \in DOMAIN S.db
  THEN [S EXCEPT !.db[id].acknowledged = TRUE, !.db[id].acknowledged_at = S.now]
  ELSE S

DbResolveAlert(S, id) ==
  IF id \in DOMAIN S.db
  THEN [S EXCEPT !.db[id].resolved = TRUE, !.db[id].resolved_at = S.now]
  ELSE S

DbDeleteAlert(S, id) == [S EXCEPT !.db = Remove(S.db, id)]

\* createAlert after its await: the row is written unless the database failed
\* (the error is logged), and alertCreated is emitted.
CreateAlertDone(S, p, ok) ==
  Emit(IF ok THEN DbSaveAlert(S, p.id, p.alert) ELSE S, "alertCreated")

AcknowledgeAlertSync(S, id) ==
  [S EXCEPT !.alerts[id].acknowledged = TRUE, !.alerts[id].acknowledgedAt = S.now]

AcknowledgeAlertDone(S, id, ok) ==
  Emit(IF ok THEN DbAcknowledgeAlert(S, id) ELSE S, "alertAcknowledged")

\* A mutant of ResolveAlertSync: the alert is left in the active set.
ResolveAlertSyncKeepsActive(S, id) ==
  [S EXCEPT !.alerts[id].resolved = TRUE,
            !.alerts[id].resolvedAt = S.now,
            !.history = Append(S.history, id)]

\* resolveAlert up to its await: the alert is marked, taken from the Map and
\* pushed to the history.
ResolveAlertSync(S, id) ==
  [S EXCEPT !.alerts[id].resolved = TRUE,
            !.alerts[id].resolvedAt = S.now,
            !.active = S.active \ {id},
            !.history = Append(S.history, id)]

ResolveAlertDone(S, id, ok) ==
  Emit(IF ok THEN DbResolveAlert(S, id) ELSE S, "alertResolved")

\* deleteAlert: the object is dropped with its key.
DeleteAlertSync(S, id) ==
  [S EXCEPT !.active = S.active \ {id},
            !.alerts = IF id \in Range(S.history) THEN S.alerts
                       ELSE Remove(S.alerts, id)]

DeleteAlertDone(S, id, ok) ==
  Emit(IF ok THEN DbDeleteAlert(S, id) ELSE S, "alertDeleted")

----------------------------------------------------------------------------
(* autoResolveAlerts *)

Thresholds ==
  [cpu |-> [warning |-> 75, critical |-> 90],
   memory |-> [warning |-> 80, critical |-> 95],
   disk |-> [warning |-> 85, critical |-> 95]]

----------------------------------------------------------------------------
(* Configuration values: strings are sequences of characters *)

Digits == <<"0", "1", "2", "3", "4", "5", "6", "7", "8", "9">>

\* The string of a number.
Str(n) ==
  IF n < 10 THEN <<Digits[n + 1]>>
  ELSE IF n < 100 THEN <<Digits[(n \div 10) + 1], Digits[(n % 10) + 1]>>
  ELSE <<Digits[(n \div 100) + 1], Digits[((n \div 10) % 10) + 1],
         Digits[(n % 10) + 1]>>

DigitValue(ch) == CHOOSE v \in 0..9 : Digits[v + 1] = ch

RECURSIVE ParseDigits(_, _)
ParseDigits(str, acc) ==
  IF str = <<>> \/ Head(str) \notin Range(Digits) THEN acc
  ELSE ParseDigits(Tail(str), acc * 10 + DigitValue(Head(str)))

\* parseInt of a string that begins with a digit: the number its leading
\* digits write.
ParseInt(str) == ParseDigits(str, 0)

\* A JSON value of a request body: a number or a string.
Number(n) == [type |-> "number", n |-> n, chars |-> <<>>]

String(chars) == [type |-> "string", n |-> 0, chars |-> chars]

\* value.toString()
ValueToString(v) == IF v.type = "number" THEN Str(v.n) ELSE v.chars

\* a !== b for a JSON value a and a number b
StrictNotEqual(a, b) == a.type # "number" \/ a.n # b

\* The number a comparison makes of a JSON value.
NumberOf(v) == IF v.type = "number" THEN v.n ELSE ParseInt(v.chars)

\* express-validator's isInt({min, max}): the string of the value is made of
\* digits and its number is in the range.
IsInt(v, min, max) ==
  LET str == ValueToString(v)
  IN /\ str # <<>>
     /\ \A i \in DOMAIN str : str[i] \in Range(Digits)
     /\ ParseInt(str) >= min
     /\ ParseInt(str) <= max

Resources == {"cpu", "memory", "disk"}

\* The configuration keys of the thresholds.
ThresholdKey ==
  [cpu |-> [warning |-> "cpu_warning_threshold",
            critical |-> "cpu_critical_threshold"],
   memory |-> [warning |-> "memory_warning_threshold",
               critical |-> "memory_critical_threshold"],
   disk |-> [warning |-> "disk_warning_threshold",
             critical |-> "disk_critical_threshold"]]

\* insertDefaultConfiguration: the rows loadConfiguration reads.
DefaultConfiguration ==
  [k \in {"refresh_interval"}
         \cup {ThresholdKey[r][l] : r \in Resources, l \in {"warning", "critical"}} |->
     CASE k = "refresh_interval" -> Str(10)
       [] k = "cpu_warning_threshold" -> Str(75)
       [] k = "cpu_critical_threshold" -> Str(90)
       [] k = "memory_warning_threshold" -> Str(80)
       [] k = "memory_critical_threshold" -> Str(95)
       [] k = "disk_warning_threshold" -> Str(85)
       [] OTHER -> Str(95)]

\* loadConfiguration, case 'refresh_interval'
LoadRefreshInterval(rows, old) ==
  IF "refresh_interval" \in DOMAIN rows THEN ParseInt(rows["refresh_interval"])
  ELSE old

\* loadConfiguration, the cases of the thresholds
LoadThresholds(rows, old) ==
  [r \in Resources |->
     [l \in {"warning", "critical"} |->
        IF ThresholdKey[r][l] \in DOMAIN rows THEN ParseInt(rows[ThresholdKey[r][l]])
        ELSE old[r][l]]]

\* A mutant of ShouldResolve: every alert of the device and type is resolved.
ShouldResolveAlways(t, currentValue, threshold) == TRUE

\* The switch of autoResolveAlerts: whether the condition of an alert of type t
\* is resolved by the value.
ShouldResolve(t, currentValue, threshold) ==
  CASE t \in {"cpu", "memory", "disk"} -> currentValue < threshold.warning
    [] t = "offline" -> TRUE
    [] OTHER -> FALSE

AlertsToResolve(S, d, t, currentValue, threshold) ==
  SortedSeq({i \in S.active :
               /\ S.alerts[i].deviceId = d
               /\ S.alerts[i].type = t
               /\ ~S.alerts[i].resolved
               /\ ShouldResolve(t, currentValue, threshold)})

\* resolveAlert throws for an id that is no longer in the Map or is resolved;
\* the loop of autoResolveAlerts logs the error and goes on to the next id.
RECURSIVE AutoSkip(_, _)
AutoSkip(S, q) ==
  IF q = <<>> THEN q
  ELSE IF Head(q) \in S.active /\ ~S.alerts[Head(q)].resolved THEN q
  ELSE AutoSkip(S, Tail(q))

\* The loop of autoResolveAlerts up to its next await: the next id that can be
\* resolved is resolved, and the call waits for the database.
AutoResolveLoop(S, q) ==
  LET q2 == AutoSkip(S, q)
  IN IF q2 = <<>>
     THEN [S |-> S, queue |-> <<>>, awaiting |-> {}]
     ELSE [S |-> ResolveAlertSync(S, Head(q2)), queue |-> Tail(q2),
           awaiting |-> {[kind |-> "resolve", id |-> Head(q2), auto |-> TRUE]}]

----------------------------------------------------------------------------
(* The operations of the alert manager *)

CreateKeys ==
  {<<"localhost", "cpu", "warning">>, <<"localhost", "cpu", "critical">>,
   <<"r1", "offline", "critical">>}

Usages == {40, 80}

\* The state of the services after construction, the devices and the last
\* response of the routes left aside.
ServicesConstructed ==
  /\ alerts = <<>>
  /\ activeAlerts = {}
  /\ alertHistory = <<>>
  /\ nextId = 1
  /\ dbAlerts = <<>>
  /\ pending = {}
  /\ autoQueue = <<>>
  /\ emitted = ZeroCount
  /\ broadcasts = ZeroCount
  /\ dbFailures = 0
  /\ createCalls = [k \in CreateKeys |-> 0]
  /\ isRunning = FALSE
  /\ monitoringTimer = FALSE
  /\ scanInProgress = FALSE
  /\ ticks = 0
  /\ cycles = <<>>
  /\ isScanning = FALSE
  /\ scans = <<>>
  /\ dbScanHistory = <<>>
  /\ webSocketClients = {}
  /\ readyState = [ws \in Clients |-> "closed"]
  /\ received = [ws \in Clients |-> 0]
  /\ deviceCount = 0
  /\ now = 1
  /\ refreshInterval = 10
  /\ thresholds = Thresholds
  /\ timers = <<>>
  /\ armedTimers = 0
  /\ cleanupTask = "null"
  /\ dbClosed = FALSE
  /\ initializing = FALSE
  /\ dbMetrics = <<>>
  /\ saving = NoBatch

\* No request has been answered yet.
InitServices ==
  /\ ServicesConstructed
  /\ response = "none"

\* The state after construction and initialize(), the Store holding the local
\* device and one remote device.
Init ==
  /\ InitServices
  /\ currentDevices = [ip \in {LocalIp, RemoteIp} |->
                         [id |-> DeviceIdOf(ip), ip |-> ip, status |-> "unknown",
                          community |-> CommunityOf(DeviceIdOf(ip))]]
  /\ deviceOrder = <<LocalIp, RemoteIp>>
  /\ dbDevices = [id \in DeviceIds |-> [ip |-> IpOf(id), status |-> "unknown",
                                         community |-> CommunityOf(id)]]
  /\ initialized = TRUE
  /\ dbConfiguration = DefaultConfiguration

\* A database call settles: it succeeded, or it failed and its caller logs the error.
DbOutcome(ok) ==
  /\ ~ok => dbFailures < MaxDbFailures
  /\ dbFailures' = IF ok THEN dbFailures ELSE dbFailures + 1

CanAwait == Cardinality(pending) < MaxInFlight

\* createAlert is called: its synchronous part.
CreateAlert(d, t, s) ==
  LET S == AlertState
      e == FindSimilarAlert(S, d, t, s)
  IN /\ IF e = NoAlert THEN nextId <= MaxAlerts /\ CanAwait
                       ELSE alerts[e].occurrenceCount < MaxOccurrence
     /\ SetAlertState(CreateAlertSync(S, d, t, s))
     /\ pending' = IF e = NoAlert
                   THEN pending \cup {[kind |-> "save", id |-> nextId, auto |-> FALSE,
                                       alert |-> NewAlert(nextId, d, t, s)]}
                   ELSE pending
     /\ UNCHANGED <<autoQueue, createCalls, dbFailures, monitorVars, scanVars, clientVars, bootVars, now, configVars>>

\* saveAlert settles: createAlert goes on after its await.
CreateAlertSettles(ok) ==
  \E p \in pending :
    /\ DbOutcome(ok)
    /\ p.kind = "save"
    /\ SetAlertState(CreateAlertDone(AlertState, p, ok))
    /\ pending' = pending \ {p}
    /\ UNCHANGED <<autoQueue, createCalls, monitorVars, scanVars, clientVars, bootVars, now, configVars>>

AcknowledgeAlert(id) ==
  /\ CanAwait
  /\ id \in activeAlerts
  /\ ~alerts[id].acknowledged
  /\ SetAlertState(AcknowledgeAlertSync(AlertState, id))
  /\ pending' = pending \cup {[kind |-> "ack", id |-> id, auto |-> FALSE]}
  /\ UNCHANGED <<autoQueue, createCalls, dbFailures, monitorVars, scanVars, clientVars, bootVars, now, configVars>>

AcknowledgeAlertSettles(ok) ==
  \E p \in pending :
    /\ DbOutcome(ok)
    /\ p.kind = "ack"
    /\ SetAlertState(AcknowledgeAlertDone(AlertState, p.id, ok))
    /\ pending' = pending \ {p}
    /\ UNCHANGED <<autoQueue, createCalls, monitorVars, scanVars, clientVars, bootVars, now, configVars>>

ResolveAlert(id) ==
  /\ CanAwait
  /\ id \in activeAlerts
  /\ ~alerts[id].resolved
  /\ SetAlertState(ResolveAlertSync(AlertState, id))
  /\ pending' = pending \cup {[kind |-> "resolve", id |-> id, auto |-> FALSE]}
  /\ UNCHANGED <<autoQueue, createCalls, dbFailures, monitorVars, scanVars, clientVars, bootVars, now, configVars>>

\* resolveAlert of the database settles; a call made by autoResolveAlerts goes
\* on with the next id of its list.
ResolveAlertSettles(ok) ==
  \E p \in pending :
    /\ DbOutcome(ok)
    /\ p.kind = "resolve"
    /\ LET S == ResolveAlertDone(AlertState, p.id, ok)
           r == IF p.auto THEN AutoResolveLoop(S, autoQueue)
                ELSE [S |-> S, queue |-> autoQueue, awaiting |-> {}]
       IN /\ SetAlertState(r.S)
          /\ autoQueue' = r.queue
          /\ pending' = (pending \ {p}) \cup r.awaiting
    /\ UNCHANGED <<createCalls, monitorVars, scanVars, clientVars, bootVars, now, configVars>>

DeleteAlert(id) ==
  /\ CanAwait
  /\ id \in activeAlerts
  /\ SetAlertState(DeleteAlertSync(AlertState, id))
  /\ pending' = pending \cup {[kind |-> "delete", id |-> id, auto |-> FALSE]}
  /\ UNCHANGED <<autoQueue, createCalls, dbFailures, monitorVars, scanVars, clientVars, bootVars, now, configVars>>

DeleteAlertSettles(ok) ==
  \E p \in pending :
    /\ DbOutcome(ok)
    /\ p.kind = "delete"
    /\ SetAlertState(DeleteAlertDone(AlertState, p.id, ok))
    /\ pending' = pending \ {p}
    /\ UNCHANGED <<autoQueue, createCalls, monitorVars, scanVars, clientVars, bootVars, now, configVars>>

AutoResolveRunning ==
  autoQueue # <<>> \/ \E p \in pending : p.kind = "resolve" /\ p.auto

\* autoResolveAlerts is called (one call at a time): the list is built and the
\* first resolveAlert runs up to its await.
AutoResolveAlerts(d, t, currentValue, threshold) ==
  LET S == AlertState
      q == AlertsToResolve(S, d, t, currentValue, threshold)
      r == AutoResolveLoop(S, q)
  IN /\ ~AutoResolveRunning
     /\ CanAwait
     /\ q # <<>>
     /\ SetAlertState(r.S)
     /\ autoQueue' = r.queue
     /\ pending' = pending \cup r.awaiting
     /\ UNCHANGED <<createCalls, dbFailures, monitorVars, scanVars, clientVars, bootVars, now, configVars>>

AlertNext ==
  \/ \E k \in CreateKeys : CreateAlert(k[1], k[2], k[3])
  \/ \E ok \in BOOLEAN : CreateAlertSettles(ok)
  \/ \E id \in activeAlerts : AcknowledgeAlert(id)
  \/ \E ok \in BOOLEAN : AcknowledgeAlertSettles(ok)
  \/ \E id \in activeAlerts : ResolveAlert(id)
  \/ \E ok \in BOOLEAN : ResolveAlertSettles(ok)
  \/ \E id \in activeAlerts : DeleteAlert(id)
  \/ \E ok \in BOOLEAN : DeleteAlertSettles(ok)
  \/ \E d \in DeviceIds, t \in {"cpu", "offline"}, v \in Usages :
       AutoResolveAlerts(d, t, v, Thresholds.cpu)

SpecAlert == Init /\ [][AlertNext]_vars

-----------------------------------------------------------------------------
(* Restarts: the alerts of a new process are those loadActiveAlerts reads *)

\* The clock stops here.
MaxTime == 2

\* Time passes.
Tock ==
  /\ now < MaxTime
  /\ now' = now + 1
  /\ UNCHANGED <<alerts, activeAlerts, alertHistory, nextId, dbAlerts, pending,
                 autoQueue, emitted, broadcasts, dbFailures, createCalls,
                 currentDevices, deviceOrder, dbDevices, monitorVars, scanVars,
                 clientVars, bootVars, configVars>>

\* getAlerts({acknowledged: false}): the ids of the rows loadActiveAlerts gets.
LoadedAlerts(rows) == {i \in DOMAIN rows : ~rows[i].acknowledged}

\* The object loadActiveAlerts makes of a row.
LoadedAlert(i, row) ==
  [id |-> i, deviceId |-> row.device_id, type |-> row.type,
   severity |-> row.severity, acknowledged |-> row.acknowledged,
   resolved |-> row.resolved_at # NoTime, occurrenceCount |-> 1,
   createdAt |-> row.created_at, acknowledgedAt |-> row.acknowledged_at,
   resolvedAt |-> row.resolved_at]

\* The process is restarted once its database calls have settled: the
\* constructor of AlertManager, then loadActiveAlerts.
Restart ==
  /\ now < MaxTime
  /\ pending = {}
  /\ now' = now + 1
  /\ alerts' = [i \in LoadedAlerts(dbAlerts) |-> LoadedAlert(i, dbAlerts[i])]
  /\ activeAlerts' = LoadedAlerts(dbAlerts)
  /\ alertHistory' = <<>>
  /\ autoQueue' = <<>>
  /\ UNCHANGED <<nextId, dbAlerts, pending, emitted, broadcasts, dbFailures,
                 createCalls, currentDevices, deviceOrder, dbDevices,
                 monitorVars, scanVars, clientVars, bootVars, configVars>>

LifecycleNext ==
  \/ CreateAlert("localhost", "cpu", "warning")
  \/ \E ok \in BOOLEAN : CreateAlertSettles(ok)
  \/ \E id \in activeAlerts : AcknowledgeAlert(id)
  \/ \E ok \in BOOLEAN : AcknowledgeAlertSettles(ok)
  \/ \E id \in activeAlerts : ResolveAlert(id)
  \/ \E ok \in BOOLEAN : ResolveAlertSettles(ok)
  \/ Tock
  \/ Restart

SpecLifecycle == Init /\ [][LifecycleNext]_vars

-----------------------------------------------------------------------------
(* The acknowledge route *)

\* The message of the error acknowledgeAlert throws, as its words before the
\* id; none when it throws nothing.
AcknowledgeError(S, id) ==
  IF id \notin S.active THEN <<"Alert", "not", "found", ":">>
  ELSE IF S.alerts[id].acknowledged THEN <<"Alert", "already", "acknowledged", ":">>
  ELSE <<>>

\* message.includes(words)
Includes(message, words) ==
  \E i \in 0..Len(message) :
    /\ i + Len(words) <= Len(message)
    /\ \A j \in DOMAIN words : message[i + j] = words[j]

\* A mutant of StatusOf: every error is answered 500.
StatusAlways500(message) == "500"

\* The status the catch block of the route answers an error with.
StatusOf(message) ==
  IF Includes(message, <<"not", "found">>) THEN "404"
  ELSE IF Includes(message, <<"already", "acknowledged">>) THEN "409"
  ELSE "500"

\* POST /api/alerts/:id/acknowledge up to the await of acknowledgeAlert, or to
\* its answer when acknowledgeAlert throws.
PostAcknowledge(id) ==
  LET S == AlertState
      message == AcknowledgeError(S, id)
  IN /\ IF message = <<>>
        THEN /\ CanAwait
             /\ SetAlertState(AcknowledgeAlertSync(S, id))
             /\ pending' = pending \cup {[kind |-> "ack", id |-> id, auto |-> FALSE]}
             /\ UNCHANGED response
        ELSE /\ SetAlertState(S)
             /\ response' = StatusOf(message)
             /\ UNCHANGED pending
     /\ UNCHANGED <<autoQueue, createCalls, dbFailures, monitorVars, isScanning,
                    scans, dbScanHistory, clientVars, bootVars, now, configVars>>

AcknowledgeNext ==
  \/ \E k \in CreateKeys : CreateAlert(k[1], k[2], k[3])
  \/ \E ok \in BOOLEAN : CreateAlertSettles(ok)
  \/ \E id \in 1..MaxAlerts : PostAcknowledge(id)
  \/ \E ok \in BOOLEAN : AcknowledgeAlertSettles(ok)
  \/ \E id \in activeAlerts : ResolveAlert(id)
  \/ \E ok \in BOOLEAN : ResolveAlertSettles(ok)

SpecAcknowledge == Init /\ [][AcknowledgeNext]_vars

-----------------------------------------------------------------------------
(* The resolve route *)

\* The message of the error resolveAlert throws, as its words before the id;
\* none when it throws nothing.
ResolveError(S, id) ==
  IF id \notin S.active THEN <<"Alert", "not", "found", ":">>
  ELSE IF S.alerts[id].resolved THEN <<"Alert", "already", "resolved", ":">>
  ELSE <<>>

\* The status the catch block of the resolve route answers an error with.
ResolveStatusOf(message) ==
  IF Includes(message, <<"not", "found">>) THEN "404"
  ELSE IF Includes(message, <<"already", "resolved">>) THEN "409"
  ELSE "500"

\* POST /api/alerts/:id/resolve up to the await of resolveAlert, or to its
\* answer when resolveAlert throws.
PostResolve(id) ==
  LET S == AlertState
      message == ResolveError(S, id)
  IN /\ IF message = <<>>
        THEN /\ CanAwait
             /\ SetAlertState(ResolveAlertSync(S, id))
             /\ pending' = pending \cup {[kind |-> "resolve", id |-> id, auto |-> FALSE]}
             /\ UNCHANGED response
        ELSE /\ SetAlertState(S)
             /\ response' = ResolveStatusOf(message)
             /\ UNCHANGED pending
     /\ UNCHANGED <<autoQueue, createCalls, dbFailures, monitorVars, isScanning,
                    scans, dbScanHistory, clientVars, bootVars, now, configVars>>

ResolveNext ==
  \/ \E k \in CreateKeys : CreateAlert(k[1], k[2], k[3])
  \/ \E ok \in BOOLEAN : CreateAlertSettles(ok)
  \/ \E id \in activeAlerts : AcknowledgeAlert(id)
  \/ \E ok \in BOOLEAN : AcknowledgeAlertSettles(ok)
  \/ \E id \in 1..MaxAlerts : PostResolve(id)
  \/ \E ok \in BOOLEAN : ResolveAlertSettles(ok)

SpecResolve == Init /\ [][ResolveNext]_vars

-----------------------------------------------------------------------------
(* autoResolveAlerts awaited to its end, with no other operation between its *)
(* resolves; only its own database writes can fail                            *)

\* The alerts the callers of this section raise.
AutoKeys ==
  {<<"localhost", "cpu", "warning">>, <<"localhost", "cpu", "critical">>,
   <<"localhost", "memory", "warning">>, <<"r1", "offline", "critical">>}

\* The values autoResolveAlerts is called with.
AutoValues == {40, 77}

AutoThresholds == {Thresholds.cpu, Thresholds.memory}

\* The types it is called for.
AutoTypes == {"cpu", "memory", "offline", "network"}

\* A mutant of AutoResolveAll: the loop ends after the first id.
AutoResolveFirst(S, q, ok) ==
  IF q = <<>> THEN S
  ELSE ResolveAlertDone(ResolveAlertSync(S, Head(q)), Head(q), ok)

\* The second loop of autoResolveAlerts: every id of the list is resolved in
\* turn; a resolveAlert that throws is logged and the loop goes on.
RECURSIVE AutoResolveAll(_, _, _)
AutoResolveAll(S, q, ok) ==
  IF q = <<>> THEN S
  ELSE IF Head(q) \in S.active /\ ~S.alerts[Head(q)].resolved
       THEN AutoResolveAll(ResolveAlertDone(ResolveAlertSync(S, Head(q)), Head(q), ok),
                           Tail(q), ok)
       ELSE AutoResolveAll(S, Tail(q), ok)

\* The number autoResolveAlerts returns, as the caller reads it.
CountOf(q) == CASE Len(q) = 0 -> "0" [] Len(q) = 1 -> "1" [] OTHER -> "2"

\* One call of autoResolveAlerts from its first line to its return; ok tells
\* whether the database took the writes.
AutoResolveAwaited(d, t, currentValue, threshold, ok) ==
  LET S == AlertState
      q == AlertsToResolve(S, d, t, currentValue, threshold)
  IN /\ pending = {}
     /\ ok \/ (q # <<>> /\ dbFailures < MaxDbFailures)
     /\ response' = CountOf(q)
     /\ dbFailures' = IF ok THEN dbFailures ELSE dbFailures + 1
     /\ SetAlertState(AutoResolveAll(S, q, ok))
     /\ UNCHANGED <<pending, autoQueue, createCalls, monitorVars, isScanning,
                    scans, dbScanHistory, clientVars, bootVars, now, configVars>>

AutoNext ==
  \/ \E k \in AutoKeys : CreateAlert(k[1], k[2], k[3])
  \/ CreateAlertSettles(TRUE)
  \/ \E id \in activeAlerts : AcknowledgeAlert(id)
  \/ AcknowledgeAlertSettles(TRUE)
  \/ \E d \in DeviceIds, t \in AutoTypes, v \in AutoValues,
        th \in AutoThresholds, ok \in BOOLEAN :
       AutoResolveAwaited(d, t, v, th, ok)

SpecAuto == Init /\ [][AutoNext]_vars

-----------------------------------------------------------------------------
(* Alerts raised tick after tick: checkThresholds calls createAlert in every *)
(* tick in which the condition holds, and the database fails only so often   *)

RetryNext ==
  \/ \E k \in CreateKeys : CreateAlert(k[1], k[2], k[3])
  \/ \E ok \in BOOLEAN : CreateAlertSettles(ok)

\* The ticks keep raising the alerts, and a write the database is sent settles.
SpecRetry ==
  /\ Init
  /\ [][RetryNext]_vars
  /\ \A k \in CreateKeys : WF_vars(CreateAlert(k[1], k[2], k[3]))
  /\ WF_vars(\E ok \in BOOLEAN : CreateAlertSettles(ok))

----------------------------------------------------------------------------
(* Concurrent createAlert calls: the callers only call createAlert, and the *)
(* database accepts every write.                                            *)

CallCreate(k) ==
  LET S == AlertState
      e == FindSimilarAlert(S, k[1], k[2], k[3])
  IN /\ createCalls[k] < MaxCalls
     /\ createCalls' = [createCalls EXCEPT ![k] = @ + 1]
     /\ SetAlertState(CreateAlertSync(S, k[1], k[2], k[3]))
     /\ pending' = IF e = NoAlert
                   THEN pending \cup {[kind |-> "save", id |-> nextId, auto |-> FALSE,
                                       alert |-> NewAlert(nextId, k[1], k[2], k[3])]}
                   ELSE pending
     /\ UNCHANGED <<autoQueue, dbFailures, monitorVars, scanVars, clientVars, bootVars, now, configVars>>

CreateNext ==
  \/ \E k \in CreateKeys : CallCreate(k)
  \/ CreateAlertSettles(TRUE)

SpecCreate == Init /\ [][CreateNext]_vars

(* ----------------------------------------------------------------------- *)
(* MonitoringService: the monitoring cycle.                                 *)
(* ----------------------------------------------------------------------- *)

Metric(u) == [ok |-> TRUE, usage |-> u]

NoMetric == [ok |-> FALSE, usage |-> 0]

NoSample == [system |-> FALSE, cpu |-> NoMetric, memory |-> NoMetric, disk |-> NoMetric]

\* What collectLocalMetrics can return: it never throws.
LocalSamples ==
  {[system |-> TRUE, cpu |-> Metric(u), memory |-> Metric(40), disk |-> Metric(40)] :
     u \in {40, 80, 92}}

\* What collectAllMetrics returns for an agent that answers.
RemoteSamples ==
  {[system |-> TRUE, cpu |-> Metric(u), memory |-> Metric(40), disk |-> Metric(40)] :
     u \in {40, 92}}

\* What collectAllMetrics returns when every SNMP query fails: the rejected
\* system and disk queries give null, the cpu and memory queries fall back to
\* simulated values, and nothing is thrown.
UnreachableSamples ==
  {[system |-> FALSE, cpu |-> Metric(u), memory |-> Metric(40), disk |-> NoMetric] :
     u \in {40, 92}}

\* monitorDevice asks the local collector for the device whose id is localhost.
Samples(dev) ==
  IF dev.id = "localhost" THEN LocalSamples ELSE RemoteSamples \cup UnreachableSamples

\* Polls that cross no threshold.
QuietSamples(dev) ==
  {m \in Samples(dev) : m.system /\ m.cpu.usage < Thresholds["cpu"].warning}

FailPoints == {"none", "saveDevice", "saveMetrics", "saveAlert", "updateDeviceStatus"}

\* broadcastToClients(type, data)
BroadcastToClients(S, type) == [S EXCEPT !.broadcasts[type] = @ + 1]

\* createAlert with its await of saveAlert, as the monitoring cycle awaits it.
CreateAlertAwaited(S, d, t, s, ok) ==
  IF FindSimilarAlert(S, d, t, s) # NoAlert
  THEN CreateAlertSync(S, d, t, s)
  ELSE CreateAlertDone(CreateAlertSync(S, d, t, s),
                       [id |-> S.nextId, alert |-> NewAlert(S.nextId, d, t, s)], ok)

\* A mutant of Breach: no alert is critical.
BreachWarningOnly(t, m) ==
  IF m[t].ok /\ m[t].usage >= thresholds[t].warning
  THEN <<[type |-> t, severity |-> "warning"]>>
  ELSE <<>>

\* The alert checkThresholds pushes for one metric.
Breach(t, m) ==
  IF ~m[t].ok THEN <<>>
  ELSE IF m[t].usage >= thresholds[t].critical
       THEN <<[type |-> t, severity |-> "critical"]>>
       ELSE IF m[t].usage >= thresholds[t].warning
            THEN <<[type |-> t, severity |-> "warning"]>>
            ELSE <<>>

BreachedAlerts(m) == Breach("cpu", m) \o Breach("memory", m) \o Breach("disk", m)

\* The loop of checkThresholds over the alerts it collected; saveOk is false
\* when the first saveAlert of the loop fails.
RECURSIVE CreateAlerts(_, _, _, _)
CreateAlerts(S, d, as, saveOk) ==
  IF as = <<>> THEN S
  ELSE LET a == Head(as)
           new == FindSimilarAlert(S, d, a.type, a.severity) = NoAlert
       IN CreateAlerts(CreateAlertAwaited(S, d, a.type, a.severity, saveOk),
                       d, Tail(as), saveOk \/ new)

CheckThresholds(S, d, m, saveOk) == CreateAlerts(S, d, BreachedAlerts(m), saveOk)

\* Whether checkThresholds calls saveAlert at all.
SavesAnAlert(S, d, m) ==
  \E i \in DOMAIN BreachedAlerts(m) :
    FindSimilarAlert(S, d, BreachedAlerts(m)[i].type, BreachedAlerts(m)[i].severity)
      = NoAlert

\* INSERT OR REPLACE INTO devices: id is the PRIMARY KEY and ip is UNIQUE, so
\* the row with that id and any row with that ip are replaced by the new row.
ReplaceRow(rows, id, row) ==
  LET kept == {i \in DOMAIN rows : i # id /\ rows[i].ip # row.ip}
  IN [i \in kept \cup {id} |-> IF i = id THEN row ELSE rows[i]]

\* saveDevice
DbSaveDevice(S, dev, status) ==
  [S EXCEPT !.dbDevices =
     ReplaceRow(S.dbDevices, dev.id,
                [ip |-> dev.ip, status |-> status, community |-> dev.community])]

\* currentDevices.set(ip, device): a new key goes to the end of the Map.
MapSet(S, ip, device) ==
  [S EXCEPT !.devices = [k \in DOMAIN S.devices \cup {ip} |->
                           IF k = ip THEN device ELSE S.devices[k]],
            !.order = IF ip \in DOMAIN S.devices THEN S.order
                      ELSE Append(S.order, ip)]

\* updateDeviceStatus: the row then the cached device with that id.
UpdateDeviceStatus(S, id, status) ==
  [S EXCEPT !.dbDevices = [i \in DOMAIN S.dbDevices |->
                             IF i = id THEN [S.dbDevices[i] EXCEPT !.status = status]
                             ELSE S.dbDevices[i]],
            !.devices = [ip \in DOMAIN S.devices |->
                           IF S.devices[ip].id = id
                           THEN [S.devices[ip] EXCEPT !.status = status]
                           ELSE S.devices[ip]]]

\* monitorDevice after its metrics are collected; fail names the database call
\* that throws, if one does.
MonitorDevice(S, dev, m, fail) ==
  LET S1 == IF m.system THEN DbSaveDevice(S, dev, "online") ELSE S
      S2 == CheckThresholds(S1, dev.id, m, fail # "saveAlert")
      S3 == UpdateDeviceStatus(S2, dev.id, "online")
      S4 == MapSet(S3, dev.ip, [dev EXCEPT !.status = "online"])
  IN CASE fail = "saveDevice" -> [S |-> S, threw |-> TRUE]
       [] fail = "saveMetrics" -> [S |-> S1, threw |-> TRUE]
       [] fail = "updateDeviceStatus" -> [S |-> S2, threw |-> TRUE]
       [] OTHER -> [S |-> S4, threw |-> FALSE]

\* The catch block of the loop of performMonitoringCycle.
MarkOffline(S, dev, fail) ==
  IF fail = "updateDeviceStatus"
  THEN [S |-> S, threw |-> TRUE]
  ELSE [S |-> CreateAlertAwaited(UpdateDeviceStatus(S, dev.id, "offline"),
                                 dev.id, "offline", "critical", fail # "saveAlert"),
        threw |-> FALSE]

\* Whether the database call named by fail is made by this poll.
CanFail(S, dev, m, fail) ==
  CASE fail = "saveDevice" -> m.system
    [] fail = "saveMetrics" -> m.cpu.ok \/ m.memory.ok \/ m.disk.ok
    [] fail = "saveAlert" ->
         SavesAnAlert(IF m.system THEN DbSaveDevice(S, dev, "online") ELSE S, dev.id, m)
    [] OTHER -> TRUE

CanFailOffline(S, dev, fail) ==
  CASE fail = "saveAlert" -> FindSimilarAlert(S, dev.id, "offline", "critical") = NoAlert
    [] fail \in {"none", "updateDeviceStatus"} -> TRUE
    [] OTHER -> FALSE

\* Array.from(currentDevices.values())
Snapshot == [i \in DOMAIN deviceOrder |-> currentDevices[deviceOrder[i]]]

\* A mutant of PerformMonitoringCycle: scanInProgress is not looked at.
PerformMonitoringCycleAlways(c) ==
  /\ cycles' = cycles @@
                 (c :> [snapshot |-> Snapshot, idx |-> 1, pc |-> "collect",
                        metrics |-> NoSample, collectedAt |-> 0,
                        results |-> <<>>])
  /\ UNCHANGED broadcasts

\* performMonitoringCycle up to its first await.
PerformMonitoringCycle(c) ==
  IF scanInProgress
  THEN UNCHANGED <<cycles, broadcasts>>
  ELSE IF Snapshot = <<>>
       THEN /\ broadcasts' = [broadcasts EXCEPT !["monitoringUpdate"] = @ + 1]
            /\ UNCHANGED cycles
       ELSE /\ cycles' = cycles @@
                           (c :> [snapshot |-> Snapshot, idx |-> 1, pc |-> "collect",
                                  metrics |-> NoSample, collectedAt |-> 0,
                                  results |-> <<>>])
            /\ UNCHANGED broadcasts

\* start(): the timer is armed, then the first cycle is run.
Start ==
  /\ ~isRunning
  /\ isRunning' = TRUE
  /\ monitoringTimer' = TRUE
  /\ timers' = Append(timers, refreshInterval)
  /\ armedTimers' = armedTimers + 1
  /\ PerformMonitoringCycle(IF timers = <<>> THEN 0 ELSE MaxTicks + Len(timers))
  /\ UNCHANGED <<alerts, activeAlerts, alertHistory, nextId, dbAlerts, pending,
                 autoQueue, emitted, dbFailures, createCalls, currentDevices, deviceOrder,
                 dbDevices, scanInProgress, ticks, scanVars, clientVars, bootVars, now,
                 refreshInterval, thresholds, dbConfiguration, cleanupTask, dbClosed,
                 initializing, metricVars>>

\* The setInterval callback.
Tick ==
  /\ monitoringTimer
  /\ ticks < MaxTicks
  /\ Cardinality(DOMAIN cycles) < MaxCycles
  /\ ticks' = ticks + 1
  /\ PerformMonitoringCycle(ticks + 1)
  /\ UNCHANGED <<alerts, activeAlerts, alertHistory, nextId, dbAlerts, pending,
                 autoQueue, emitted, dbFailures, createCalls, currentDevices, deviceOrder,
                 dbDevices, isRunning, monitoringTimer, scanInProgress, scanVars, clientVars, bootVars, now, configVars>>

\* The collection of the metrics of the current device of cycle c settles.
MonitorCollect(c, m) ==
  /\ c \in DOMAIN cycles
  /\ cycles[c].pc = "collect"
  /\ cycles' = [cycles EXCEPT ![c].pc = "finish", ![c].metrics = m,
                              ![c].collectedAt = nextId]
  /\ UNCHANGED <<alerts, activeAlerts, alertHistory, nextId, dbAlerts, pending,
                 autoQueue, emitted, broadcasts, dbFailures, createCalls,
                 currentDevices, deviceOrder, dbDevices, isRunning, monitoringTimer,
                 scanInProgress, ticks, scanVars, clientVars, bootVars, now, configVars>>

\* The rest of the loop body for the current device of cycle c, and the
\* broadcast after the last device.
MonitorFinish(c, fail, failOffline) ==
  /\ c \in DOMAIN cycles
  /\ cycles[c].pc = "finish"
  /\ LET cy == cycles[c]
         dev == cy.snapshot[cy.idx]
         R == MonitorDevice(AlertState, dev, cy.metrics, fail)
         H == IF R.threw THEN MarkOffline(R.S, dev, failOffline) ELSE R
         failures == (IF fail = "none" THEN 0 ELSE 1)
                     + (IF failOffline = "none" THEN 0 ELSE 1)
         results == IF R.threw THEN cy.results
                    ELSE Append(cy.results, [id |-> dev.id, status |-> "online"])
         last == cy.idx = Len(cy.snapshot)
     IN /\ CanFail(AlertState, dev, cy.metrics, fail)
        /\ IF R.threw THEN CanFailOffline(R.S, dev, failOffline)
                      ELSE failOffline = "none"
        /\ dbFailures + failures <= MaxDbFailures
        /\ dbFailures' = dbFailures + failures
        /\ SetAlertState(IF ~H.threw /\ last
                         THEN BroadcastToClients(H.S, "monitoringUpdate")
                         ELSE H.S)
        /\ cycles' = IF H.threw \/ last
                     THEN Remove(cycles, c)
                     ELSE [cycles EXCEPT ![c].idx = @ + 1, ![c].pc = "collect",
                                         ![c].metrics = NoSample,
                                         ![c].collectedAt = 0,
                                         ![c].results = results]
  /\ UNCHANGED <<pending, autoQueue, createCalls, isRunning, monitoringTimer,
                 scanInProgress, ticks, scanVars, clientVars, bootVars, now, configVars>>

\* The device cycle c is polling.
CurrentDevice(c) == cycles[c].snapshot[cycles[c].idx]

MonNext ==
  \/ Start
  \/ Tick
  \/ \E c \in DOMAIN cycles : \E m \in Samples(CurrentDevice(c)) :
       MonitorCollect(c, m)
  \/ \E c \in DOMAIN cycles : \E fail, failOffline \in FailPoints :
       MonitorFinish(c, fail, failOffline)

SpecMon == Init /\ [][MonNext]_vars

\* Polls of the local device in which each of the three metrics is below its
\* warning threshold, at it or above its critical threshold, or is missing.
ThresholdSamples(dev) ==
  IF dev.id = "localhost"
  THEN {[system |-> TRUE, cpu |-> Metric(c), memory |-> Metric(r), disk |-> k] :
          c \in {40, 92}, r \in {40, 80, 96}, k \in {Metric(40), Metric(96), NoMetric}}
  ELSE RemoteSamples

\* The monitoring cycles with these polls; a saveAlert can fail.
ThresholdNext ==
  \/ Start
  \/ Tick
  \/ \E c \in DOMAIN cycles : \E m \in ThresholdSamples(CurrentDevice(c)) :
       MonitorCollect(c, m)
  \/ \E c \in DOMAIN cycles : \E fail \in {"none", "saveAlert"} :
       MonitorFinish(c, fail, "none")

SpecThresholds == Init /\ [][ThresholdNext]_vars

(* ----------------------------------------------------------------------- *)
(* NetworkScanner and the scan routes.                                      *)
(* ----------------------------------------------------------------------- *)

\* The requests POST /api/scan/start is sent: a span of three hosts scanned two
\* at a time, a span of two hosts scanned together without the port scan, a
\* span whose end is below its start, and a range that is not a string.
ScanRequests ==
  {[range |-> [kind |-> "span", base |-> "10.0.0", start |-> 1, end |-> 3],
    concurrent |-> 2, includePorts |-> TRUE],
   [range |-> [kind |-> "span", base |-> "10.0.0", start |-> 8, end |-> 9],
    concurrent |-> 50, includePorts |-> FALSE],
   [range |-> [kind |-> "span", base |-> "10.0.0", start |-> 5, end |-> 4],
    concurrent |-> 50, includePorts |-> TRUE],
   [range |-> [kind |-> "number", base |-> "", start |-> 0, end |-> 0],
    concurrent |-> 50, includePorts |-> TRUE]}

\* parseIPRange: the addresses of a span or the single address; range.includes
\* throws when the range is not a string.
ParseIPRange(range) ==
  CASE range.kind = "span" ->
         [threw |-> FALSE,
          ips |-> [i \in 1..(range.end - range.start + 1) |->
                     <<range.base, range.start + i - 1>>]]
    [] range.kind = "single" ->
         [threw |-> FALSE, ips |-> <<<<range.base, range.start>>>>]
    [] OTHER -> [threw |-> TRUE, ips |-> <<>>]

\* The server listens once initialize(), hence the first cycle, has returned.
Listening == isRunning /\ 0 \notin DOMAIN cycles

\* The probes batch.map starts for the batch that begins at ips[from].
StartBatch(sc, from) ==
  LET to == Min({from + sc.batchSize - 1, Len(sc.ips)})
  IN [sc EXCEPT !.pc = "probing", !.next = to + 1,
                !.probes = [i \in from..to |-> "ping"]]

\* A mutant of BatchDone: the batch is over when one of its probes is.
BatchDoneAny(sc) == \E i \in DOMAIN sc.probes : sc.probes[i] = "done"

\* Promise.all(batchPromises) is resolved.
BatchDone(sc) == \A i \in DOMAIN sc.probes : sc.probes[i] = "done"

\* The scanCompleted listener up to its await.
HistoryOf(s, sc) ==
  [kind |-> "history", id |-> s, auto |-> FALSE,
   total_ips |-> Len(sc.ips), discovered_hosts |-> Len(sc.discovered)]

\* scanRange once a probe of scan s has ended, sc being the scan after it: the
\* batch may be over, and then the delay or the end of the scan follows.
AfterProbe(S, s, sc) ==
  IF ~BatchDone(sc)
  THEN /\ SetAlertState(S)
       /\ scans' = [scans EXCEPT ![s] = sc]
       /\ UNCHANGED <<isScanning, scanInProgress, pending>>
  ELSE IF sc.next <= Len(sc.ips)
       THEN /\ SetAlertState(S)
            /\ scans' = [scans EXCEPT ![s] = [sc EXCEPT !.pc = "delay"]]
            /\ UNCHANGED <<isScanning, scanInProgress, pending>>
       ELSE /\ SetAlertState(Emit(S, "scanCompleted"))
            /\ scans' = [scans EXCEPT ![s] =
                           [sc EXCEPT !.pc = "completed",
                                      !.totalFound = Len(sc.discovered)]]
            /\ isScanning' = FALSE
            /\ scanInProgress' = FALSE
            /\ pending' = pending \cup {HistoryOf(s, sc)}

NewScan(req, ips) ==
  [ips |-> ips, batchSize |-> Min({req.concurrent, Len(ips)}),
   includePorts |-> req.includePorts, next |-> 1, probes |-> <<>>,
   discovered |-> <<>>, hostEvents |-> 0, pc |-> "probing", totalFound |-> 0,
   stopRequested |-> FALSE]

\* POST /api/scan/start, with scanNetwork and scanRange up to the first await.
StartScan(req) ==
  /\ Listening
  /\ IF isScanning
     THEN /\ response' = "conflict"
          /\ UNCHANGED <<scans, isScanning, scanInProgress, pending, emitted,
                         broadcasts>>
     ELSE LET s == Cardinality(DOMAIN scans) + 1
              P == ParseIPRange(req.range)
              sc == NewScan(req, P.ips)
              S == Emit(AlertState, "scanStarted")
          IN /\ s <= MaxScans
             /\ response' = "started"
             /\ IF P.threw
                THEN /\ scans' = scans @@ (s :> [sc EXCEPT !.pc = "failed"])
                     /\ isScanning' = FALSE
                     /\ scanInProgress' = TRUE
                     /\ emitted' = Emit(S, "scanError").emitted
                     /\ broadcasts' = Emit(S, "scanError").broadcasts
                     /\ UNCHANGED pending
                ELSE IF P.ips = <<>>
                     THEN /\ scans' = scans @@ (s :> [sc EXCEPT !.pc = "completed"])
                          /\ isScanning' = FALSE
                          /\ scanInProgress' = FALSE
                          /\ emitted' = Emit(S, "scanCompleted").emitted
                          /\ broadcasts' = Emit(S, "scanCompleted").broadcasts
                          /\ pending' = pending \cup {HistoryOf(s, sc)}
                     ELSE /\ scans' = scans @@ (s :> StartBatch(sc, 1))
                          /\ isScanning' = TRUE
                          /\ scanInProgress' = TRUE
                          /\ emitted' = S.emitted
                          /\ broadcasts' = S.broadcasts
                          /\ UNCHANGED pending
  /\ UNCHANGED <<alerts, activeAlerts, alertHistory, nextId, dbAlerts, autoQueue,
                 dbFailures, createCalls, currentDevices, deviceOrder, dbDevices, isRunning,
                 monitoringTimer, ticks, cycles, dbScanHistory, clientVars, bootVars, now, configVars>>

\* pingHost settles for ips[i] of scan s: the host is alive, or not, or the
\* ping was rejected.
PingSettles(s, i, outcome) ==
  /\ s \in DOMAIN scans
  /\ i \in DOMAIN scans[s].probes
  /\ scans[s].probes[i] = "ping"
  /\ LET sc == scans[s]
         S == Emit(AlertState, "scanProgress")
     IN IF outcome # "alive"
        THEN AfterProbe(S, s, [sc EXCEPT !.probes[i] = "done"])
        ELSE IF sc.includePorts
             THEN AfterProbe(S, s, [sc EXCEPT !.probes[i] = "ports"])
             ELSE AfterProbe(Emit(S, "hostDiscovered"), s,
                             [sc EXCEPT !.probes[i] = "done",
                                        !.discovered = Append(@, sc.ips[i]),
                                        !.hostEvents = @ + 1])
  /\ UNCHANGED <<autoQueue, dbFailures, createCalls, isRunning, monitoringTimer,
                 ticks, cycles, response, dbScanHistory, clientVars, bootVars, now, configVars>>

\* scanCommonPorts settles for ips[i] of scan s: the host is discovered.
PortsSettle(s, i) ==
  /\ s \in DOMAIN scans
  /\ i \in DOMAIN scans[s].probes
  /\ scans[s].probes[i] = "ports"
  /\ AfterProbe(Emit(AlertState, "hostDiscovered"), s,
                [scans[s] EXCEPT !.probes[i] = "done",
                                 !.discovered = Append(@, scans[s].ips[i]),
                                 !.hostEvents = @ + 1])
  /\ UNCHANGED <<autoQueue, dbFailures, createCalls, isRunning, monitoringTimer,
                 ticks, cycles, response, dbScanHistory, clientVars, bootVars, now, configVars>>

\* The delay between two batches ends: the next batch is started.
DelayEnds(s) ==
  /\ s \in DOMAIN scans
  /\ scans[s].pc = "delay"
  /\ scans' = [scans EXCEPT ![s] = StartBatch(scans[s], scans[s].next)]
  /\ UNCHANGED <<alerts, activeAlerts, alertHistory, nextId, dbAlerts, pending,
                 autoQueue, emitted, broadcasts, dbFailures, createCalls,
                 currentDevices, deviceOrder, dbDevices, isRunning, monitoringTimer,
                 scanInProgress, ticks, cycles, isScanning, response,
                 dbScanHistory, clientVars, bootVars, now, configVars>>

\* POST /api/scan/stop, with stopScan.
StopScan ==
  /\ Listening
  /\ IF ~isScanning
     THEN /\ response' = "notScanning"
          /\ UNCHANGED <<scans, isScanning, emitted, broadcasts>>
     ELSE /\ response' = "stopped"
          /\ isScanning' = FALSE
          /\ emitted' = Emit(AlertState, "scanStopped").emitted
          /\ broadcasts' = Emit(AlertState, "scanStopped").broadcasts
          /\ scans' = [s \in DOMAIN scans |->
                         IF scans[s].pc \in {"probing", "delay"}
                         THEN [scans[s] EXCEPT !.stopRequested = TRUE]
                         ELSE scans[s]]
  /\ UNCHANGED <<alerts, activeAlerts, alertHistory, nextId, dbAlerts, pending,
                 autoQueue, dbFailures, createCalls, currentDevices, deviceOrder, dbDevices,
                 isRunning, monitoringTimer, scanInProgress, ticks, cycles,
                 dbScanHistory, clientVars, bootVars, now, configVars>>

\* saveScanHistory settles: the scanCompleted listener broadcasts the event,
\* unless the call failed.
ScanHistorySettles(ok) ==
  \E p \in pending :
    /\ p.kind = "history"
    /\ DbOutcome(ok)
    /\ pending' = pending \ {p}
    /\ dbScanHistory' = IF ok
                        THEN Append(dbScanHistory,
                                    [total_ips |-> p.total_ips,
                                     discovered_hosts |-> p.discovered_hosts])
                        ELSE dbScanHistory
    /\ broadcasts' = IF ok THEN BroadcastToClients(AlertState, "scanCompleted").broadcasts
                     ELSE broadcasts
    /\ UNCHANGED <<alerts, activeAlerts, alertHistory, nextId, dbAlerts, autoQueue,
                   emitted, createCalls, currentDevices, deviceOrder, dbDevices, isRunning,
                   monitoringTimer, scanInProgress, ticks, cycles, isScanning,
                   scans, response, clientVars, bootVars, now, configVars>>

ScanNext ==
  \/ Start
  \/ Tick
  \/ \E c \in DOMAIN cycles : \E m \in QuietSamples(CurrentDevice(c)) :
       MonitorCollect(c, m)
  \/ \E c \in DOMAIN cycles : MonitorFinish(c, "none", "none")
  \/ \E req \in ScanRequests : StartScan(req)
  \/ \E s \in DOMAIN scans : \E i \in DOMAIN scans[s].probes :
       \E outcome \in {"alive", "dead", "error"} : PingSettles(s, i, outcome)
  \/ \E s \in DOMAIN scans : \E i \in DOMAIN scans[s].probes : PortsSettle(s, i)
  \/ \E s \in DOMAIN scans : DelayEnds(s)
  \/ StopScan
  \/ \E ok \in BOOLEAN : ScanHistorySettles(ok)

SpecScan == Init /\ [][ScanNext]_vars

(* ----------------------------------------------------------------------- *)
(* parseIPRange on the characters of the range, and the route that         *)
(* validates a range with it                                               *)
(* ----------------------------------------------------------------------- *)

\* str.split(sep) for a separator of one character
RECURSIVE Split(_, _)
Split(str, sep) ==
  IF \A i \in DOMAIN str : str[i] # sep THEN <<str>>
  ELSE LET k == CHOOSE i \in DOMAIN str :
                  str[i] = sep /\ \A j \in 1..(i - 1) : str[j] # sep
       IN <<SubSeq(str, 1, k - 1)>> \o Split(SubSeq(str, k + 1, Len(str)), sep)

\* parts.join(sep)
RECURSIVE Join(_, _)
Join(parts, sep) ==
  IF parts = <<>> THEN <<>>
  ELSE IF Len(parts) = 1 THEN parts[1]
  ELSE parts[1] \o <<sep>> \o Join(Tail(parts), sep)

\* parts.slice(0, n)
Slice(parts, n) == SubSeq(parts, 1, Min({n, Len(parts)}))

\* What a template or a conversion makes of undefined.
Undefined == <<"u", "n", "d", "e", "f", "i", "n", "e", "d">>

\* parts[i - 1] in JavaScript, read by a conversion to a string
Part(parts, i) == IF i <= Len(parts) THEN parts[i] ELSE Undefined

\* NaN: no range string has a negative number, "-" being the separator.
NaN == 0 - 1

\* parseInt of a string without sign or blanks
ParseIntOrNaN(str) ==
  IF str = <<>> \/ Head(str) \notin Range(Digits) THEN NaN ELSE ParseInt(str)

\* String(Number(part)) for a part without sign, blanks, point or exponent
NumberString(part) ==
  IF part = <<>> THEN Str(0)
  ELSE IF \A i \in DOMAIN part : part[i] \in Range(Digits) THEN Str(ParseInt(part))
  ELSE <<"N", "a", "N">>

\* A mutant of Hosts: the loop ends before endHost.
HostsBelow(baseNetwork, startHost, endHost) ==
  IF startHost = NaN \/ endHost = NaN \/ endHost <= startHost THEN <<>>
  ELSE [i \in 1..(endHost - startHost) |->
          baseNetwork \o <<".">> \o Str(startHost + i - 1)]

\* for (let i = startHost; i <= endHost; i++) ips.push(`${baseNetwork}.${i}`):
\* a comparison with NaN is false.
Hosts(baseNetwork, startHost, endHost) ==
  IF startHost = NaN \/ endHost = NaN \/ endHost < startHost THEN <<>>
  ELSE [i \in 1..(endHost - startHost + 1) |->
          baseNetwork \o <<".">> \o Str(startHost + i - 1)]

\* parseIPRange for a range that is a string, character by character.
ParseIPRangeChars(range) ==
  IF Includes(range, <<"-">>)
  THEN LET parts == Split(range, "-")
           baseParts == Split(parts[1], ".")
       IN Hosts(Join(Slice(baseParts, 3), "."),
                ParseIntOrNaN(Part(baseParts, 4)),
                ParseIntOrNaN(parts[2]))
  ELSE IF Includes(range, <<"/">>)
  THEN LET parts == Split(range, "/")
           network == Split(parts[1], ".")
           networkParts == [i \in DOMAIN network |-> NumberString(network[i])]
       IN IF ParseIntOrNaN(parts[2]) = 24
          THEN Hosts(Join(Slice(networkParts, 3), "."), 1, 254)
          ELSE <<>>
  ELSE <<range>>

\* The networks, host octets, end octets and prefix lengths of the ranges the
\* route is sent.
Networks == {<<192, 168, 1>>, <<10, 0, 0>>, <<172, 16, 0>>}

HostOctets == {0, 1, 10, 250}

EndOctets == {1, 5, 10, 254, 255, 256, 300}

PrefixLengths == {8, 16, 24, 25, 32}

\* The strings of an address, a span and a block.
Address(n, h) == Join(<<Str(n[1]), Str(n[2]), Str(n[3]), Str(h)>>, ".")

Span(n, h, e) == Address(n, h) \o <<"-">> \o Str(e)

Block(n, h, p) == Address(n, h) \o <<"/">> \o Str(p)

\* The values of body.range: addresses, spans, blocks, strings that are none
\* of them, and a number.
RangeBodies ==
  {String(Address(n, h)) : n \in Networks, h \in HostOctets}
    \cup {String(Span(n, h, e)) : n \in Networks, h \in HostOctets, e \in EndOctets}
    \cup {String(Block(n, h, p)) : n \in Networks, h \in {0, 1}, p \in PrefixLengths}
    \cup {String(<<"l", "a", "n">>), String(<<>>), String(<<"1", "0", ".", "0">>),
          String(<<"a", ".", "b", ".", "c", ".", "d", "-", "9">>),
          String(Address(<<10, 0, 0>>, 256)), Number(5)}

\* POST /api/scan/validate-range: notEmpty, then parseIPRange in a try block;
\* range.includes is not a function when the range is not a string.
ValidateRange(v) ==
  /\ response' =
       IF ValueToString(v) = <<>> THEN [status |-> "400"]
       ELSE IF v.type # "string"
       THEN [status |-> "200", valid |-> FALSE, range |-> v]
       ELSE LET ips == ParseIPRangeChars(v.chars)
            IN [status |-> "200", valid |-> TRUE, range |-> v,
                totalIPs |-> Len(ips),
                firstIP |-> Part(ips, 1),
                lastIP |-> IF ips = <<>> THEN Undefined ELSE ips[Len(ips)],
                sampleIPs |-> Slice(ips, 5)]
  /\ UNCHANGED <<alerts, activeAlerts, alertHistory, nextId, dbAlerts, pending,
                 autoQueue, emitted, broadcasts, dbFailures, createCalls,
                 currentDevices, deviceOrder, dbDevices, monitorVars, isScanning,
                 scans, dbScanHistory, clientVars, bootVars, now, configVars>>

\* The state after construction and initialize(), no request answered yet.
InitParse ==
  /\ ServicesConstructed
  /\ currentDevices = [ip \in {LocalIp, RemoteIp} |->
                         [id |-> DeviceIdOf(ip), ip |-> ip, status |-> "unknown",
                          community |-> CommunityOf(DeviceIdOf(ip))]]
  /\ deviceOrder = <<LocalIp, RemoteIp>>
  /\ dbDevices = [id \in DeviceIds |-> [ip |-> IpOf(id), status |-> "unknown",
                                         community |-> CommunityOf(id)]]
  /\ initialized = TRUE
  /\ dbConfiguration = DefaultConfiguration
  /\ response = [status |-> "none"]

ParseNext == \E v \in RangeBodies : ValidateRange(v)

SpecParse == InitParse /\ [][ParseNext]_vars

(* ----------------------------------------------------------------------- *)
(* The WebSocket clients and broadcastToClients.  In the specifications     *)
(* above no client is subscribed, and a broadcast reaches nobody.           *)
(* ----------------------------------------------------------------------- *)

\* A mutant of StillSubscribed: nobody is removed.
StillSubscribedAll(clients, state) == clients

\* The clients broadcastToClients leaves in the Set: those whose readyState
\* is OPEN and whose send did not throw.
StillSubscribed(clients, state) == {ws \in clients : state[ws] = "open"}

\* The messages sent once broadcastToClients has run over the Set.
Delivered(clients, state, rcv) ==
  [ws \in DOMAIN rcv |->
     IF ws \in clients /\ state[ws] = "open" THEN rcv[ws] + 1 ELSE rcv[ws]]

\* A client connects.
Connect(ws) ==
  /\ readyState[ws] = "closed"
  /\ readyState' = [readyState EXCEPT ![ws] = "open"]
  /\ UNCHANGED <<alerts, activeAlerts, alertHistory, nextId, dbAlerts, pending,
                 autoQueue, emitted, broadcasts, dbFailures, createCalls,
                 currentDevices, deviceOrder, dbDevices, monitorVars, scanVars, bootVars, now, configVars,
                 webSocketClients, received>>

\* The socket of a client changes: its send now throws, or it is closing.
SocketChanges(ws, state) ==
  /\ readyState[ws] \in {"open", "broken"}
  /\ readyState[ws] # state
  /\ readyState' = [readyState EXCEPT ![ws] = state]
  /\ UNCHANGED <<alerts, activeAlerts, alertHistory, nextId, dbAlerts, pending,
                 autoQueue, emitted, broadcasts, dbFailures, createCalls,
                 currentDevices, deviceOrder, dbDevices, monitorVars, scanVars, bootVars, now, configVars,
                 webSocketClients, received>>

\* The close event of a socket: the client is removed.
Closed(ws) ==
  /\ readyState[ws] = "closing"
  /\ readyState' = [readyState EXCEPT ![ws] = "closed"]
  /\ webSocketClients' = webSocketClients \ {ws}
  /\ UNCHANGED <<alerts, activeAlerts, alertHistory, nextId, dbAlerts, pending,
                 autoQueue, emitted, broadcasts, dbFailures, createCalls,
                 currentDevices, deviceOrder, dbDevices, monitorVars, scanVars, bootVars, now, configVars, received>>

\* The message subscribe or unsubscribe of a connected client.
Subscribe(ws, on) ==
  /\ readyState[ws] # "closed"
  /\ webSocketClients' = IF on THEN webSocketClients \cup {ws}
                         ELSE webSocketClients \ {ws}
  /\ webSocketClients' # webSocketClients
  /\ UNCHANGED <<alerts, activeAlerts, alertHistory, nextId, dbAlerts, pending,
                 autoQueue, emitted, broadcasts, dbFailures, createCalls,
                 currentDevices, deviceOrder, dbDevices, monitorVars, scanVars, bootVars, now, configVars, readyState,
                 received>>

\* broadcastToClients(type, data) with clients subscribed.
Publish(type) ==
  /\ broadcasts[type] < MaxPublish
  /\ broadcasts' = BroadcastToClients(AlertState, type).broadcasts
  /\ webSocketClients' = StillSubscribed(webSocketClients, readyState)
  /\ received' = Delivered(webSocketClients, readyState, received)
  /\ UNCHANGED <<alerts, activeAlerts, alertHistory, nextId, dbAlerts, pending,
                 autoQueue, emitted, dbFailures, createCalls, currentDevices, deviceOrder,
                 dbDevices, monitorVars, scanVars, bootVars, now, configVars, readyState>>

PublishNext ==
  \/ \E ws \in Clients : Connect(ws)
  \/ \E ws \in Clients : \E state \in {"broken", "closing"} : SocketChanges(ws, state)
  \/ \E ws \in Clients : Closed(ws)
  \/ \E ws \in Clients : \E on \in BOOLEAN : Subscribe(ws, on)
  \/ Publish("monitoringUpdate")

SpecPublish == Init /\ [][PublishNext]_vars

-----------------------------------------------------------------------------
(* The device routes and the discovery of hosts *)

\* The devices POST /api/devices and a discovery may create.
MaxDevices == 1

\* The ids uuidv4() mints, in the order it mints them.
DeviceUuids == <<"u1", "u2">>

\* An address no device has at start-up.
NewIp == "192.168.1.51"

\* The addresses of the hosts that are added or discovered.
Ips == {RemoteIp, NewIp}

\* The bodies PUT /api/devices/:id is sent: one names a new ip, the other a
\* new community, "keep" standing for a field the body does not have.
UpdateBodies ==
  {[ip |-> RemoteIp, community |-> "keep"],
   [ip |-> "keep", community |-> "private"]}

\* getDeviceByIP: the ids of the rows with that ip.
GetDeviceByIP(rows, ip) == {i \in DOMAIN rows : rows[i].ip = ip}

\* currentDevices.delete(ip)
MapDelete(S, ip) ==
  [S EXCEPT !.devices = [k \in DOMAIN S.devices \ {ip} |-> S.devices[k]],
            !.order = SelectSeq(S.order, LAMBDA k : k # ip)]

\* POST /api/devices
AddDevice(ip, community) ==
  /\ initialized
  /\ deviceCount < MaxDevices
  /\ IF GetDeviceByIP(dbDevices, ip) # {}
     THEN /\ response' = "409"
          /\ UNCHANGED <<alerts, activeAlerts, alertHistory, nextId, dbAlerts,
                         emitted, broadcasts, currentDevices, deviceOrder,
                         dbDevices, deviceCount>>
     ELSE LET dev == [id |-> DeviceUuids[deviceCount + 1], ip |-> ip,
                      status |-> "unknown", community |-> community]
          IN /\ SetAlertState(MapSet(DbSaveDevice(AlertState, dev, "unknown"),
                                     ip, dev))
             /\ deviceCount' = deviceCount + 1
             /\ response' = "201"
  /\ UNCHANGED <<pending, autoQueue, dbFailures, createCalls, monitorVars,
                 isScanning, scans, dbScanHistory, clientVars, initialized, now, configVars>>

\* {...existingDevice, ...req.body}
Merge(existing, body) ==
  [existing EXCEPT !.ip = IF body.ip = "keep" THEN @ ELSE body.ip,
                   !.community = IF body.community = "keep" THEN @
                                 ELSE body.community]

\* Object.assign(monitoredDevice, updatedData) on the device under key, when
\* the Map has one.
Assign(S, key, updated) ==
  IF key \in DOMAIN S.devices
  THEN [S EXCEPT !.devices[key] = updated]
  ELSE S

\* PUT /api/devices/:id, between two monitoring cycles.
UpdateDevice(id, body) ==
  /\ initialized
  /\ cycles = <<>>
  /\ IF id \notin DOMAIN dbDevices
     THEN /\ response' = "404"
          /\ UNCHANGED <<alerts, activeAlerts, alertHistory, nextId, dbAlerts,
                         emitted, broadcasts, currentDevices, deviceOrder,
                         dbDevices>>
     ELSE LET existing == dbDevices[id]
              updated == [id |-> id] @@ Merge(existing, body)
          IN /\ SetAlertState(Assign(DbSaveDevice(AlertState, updated,
                                                  updated.status),
                                     existing.ip, updated))
             /\ response' = "200"
  /\ UNCHANGED <<pending, autoQueue, dbFailures, createCalls, monitorVars,
                 isScanning, scans, dbScanHistory, clientVars, bootVars, now, configVars>>

\* DatabaseManager.deleteDevice
DbDeleteDevice(S, id) ==
  [S EXCEPT !.dbDevices = [i \in DOMAIN S.dbDevices \ {id} |-> S.dbDevices[i]],
            !.db = [i \in {j \in DOMAIN S.db : S.db[j].device_id # id} |-> S.db[i]]]

\* DELETE /api/devices/:id
DeleteDevice(id) ==
  /\ initialized
  /\ IF id \notin DOMAIN dbDevices
     THEN /\ response' = "404"
          /\ UNCHANGED <<alerts, activeAlerts, alertHistory, nextId, dbAlerts,
                         emitted, broadcasts, currentDevices, deviceOrder,
                         dbDevices>>
     ELSE /\ SetAlertState(MapDelete(DbDeleteDevice(AlertState, id),
                                     dbDevices[id].ip))
          /\ response' = "200"
  /\ UNCHANGED <<pending, autoQueue, dbFailures, createCalls, monitorVars,
                 isScanning, scans, dbScanHistory, clientVars, bootVars, now, configVars>>

\* The communities processDiscoveredHost tries, in its order.
Communities == <<"public", "private", "monitoring">>

\* The saveDevice call of processDiscoveredHost that throws, if one does: the
\* one of a community, or the one of a device without SNMP information.
SaveFailures == {"none", "public", "private", "monitoring", "basic"}

\* The loop over the communities cs. collectSystemInfo throws for a community
\* that is not in answers; systemInfo is assigned before saveDevice is called,
\* and the catch block of the loop also catches what saveDevice throws.
RECURSIVE TryCommunities(_, _, _, _, _, _)
TryCommunities(S, dev, cs, answers, failAt, systemInfo) ==
  IF cs = <<>> THEN [S |-> S, systemInfo |-> systemInfo, failed |-> FALSE]
  ELSE IF Head(cs) \notin answers
  THEN TryCommunities(S, dev, Tail(cs), answers, failAt, systemInfo)
  ELSE IF failAt = Head(cs)
  THEN [TryCommunities(S, dev, Tail(cs), answers, failAt, TRUE) EXCEPT !.failed = TRUE]
  ELSE LET found == [dev EXCEPT !.community = Head(cs)]
       IN [S |-> MapSet(DbSaveDevice(S, found, "online"), dev.ip, found),
           systemInfo |-> TRUE, failed |-> FALSE]

\* processDiscoveredHost for a host a scan found alive. The SNMP agent of the
\* host answers the communities of answers; failAt names the saveDevice call
\* that throws.
ProcessDiscoveredHost(ip, answers, failAt) ==
  /\ initialized
  /\ isRunning
  /\ LET existingDevice == GetDeviceByIP(dbDevices, ip)
         dev == [id |-> DeviceUuids[deviceCount + 1], ip |-> ip,
                 status |-> "online", community |-> "public"]
         r == TryCommunities(AlertState, dev, Communities, answers, failAt, FALSE)
         failed == r.failed \/ (~r.systemInfo /\ failAt = "basic")
     IN IF existingDevice = {}
        THEN /\ deviceCount < MaxDevices
             /\ failed => dbFailures < MaxDbFailures
             /\ dbFailures' = IF failed THEN dbFailures + 1 ELSE dbFailures
             /\ SetAlertState(IF r.systemInfo THEN r.S
                              ELSE IF failAt = "basic" THEN AlertState
                              ELSE MapSet(DbSaveDevice(AlertState, dev, "online"),
                                          ip, dev))
             /\ deviceCount' = deviceCount + 1
        ELSE /\ SetAlertState(UpdateDeviceStatus(AlertState,
                                                 CHOOSE i \in existingDevice : TRUE,
                                                 "online"))
             /\ UNCHANGED <<deviceCount, dbFailures>>
  /\ UNCHANGED <<pending, autoQueue, createCalls, monitorVars,
                 scanVars, clientVars, initialized, now, configVars>>

DevicesNext ==
  \/ Start
  \/ Tick
  \/ \E c \in DOMAIN cycles : \E m \in QuietSamples(CurrentDevice(c)) :
       MonitorCollect(c, m)
  \/ \E c \in DOMAIN cycles : MonitorFinish(c, "none", "none")
  \/ \E ip \in Ips : AddDevice(ip, "public")
  \/ \E id \in DOMAIN dbDevices \cup {"u2"}, body \in UpdateBodies :
       UpdateDevice(id, body)
  \/ \E id \in DOMAIN dbDevices \cup {"u2"} : DeleteDevice(id)
  \/ \E ip \in Ips : ProcessDiscoveredHost(ip, {}, "none")

SpecDevices == Init /\ [][DevicesNext]_vars

\* Discovery while the devices are monitored: the SNMP agents and the database
\* can fail.
DiscoverNext ==
  \/ Start
  \/ Tick
  \/ \E c \in DOMAIN cycles : \E m \in QuietSamples(CurrentDevice(c)) :
       MonitorCollect(c, m)
  \/ \E c \in DOMAIN cycles : MonitorFinish(c, "none", "none")
  \/ \E ip \in Ips, answers \in SUBSET Range(Communities), failAt \in SaveFailures :
       ProcessDiscoveredHost(ip, answers, failAt)

SpecDiscover == Init /\ [][DiscoverNext]_vars

-----------------------------------------------------------------------------
(* Start-up *)

\* The devices tables initialize() may find: none, the local and a remote
\* device, a remote device only.
BootStores ==
  {[id \in ids |-> [ip |-> IpOf(id), status |-> "unknown",
                    community |-> CommunityOf(id)]] :
     ids \in {{}, DeviceIds, {"r1"}}}

\* The state before initialize().
InitBoot ==
  /\ InitServices
  /\ currentDevices = <<>>
  /\ deviceOrder = <<>>
  /\ dbDevices \in BootStores
  /\ initialized = FALSE
  /\ dbConfiguration = DefaultConfiguration

\* getAllDevices: the ips of the rows, ORDER BY ip.
GetAllDevices(rows) ==
  SelectSeq(<<LocalIp, RemoteIp, NewIp>>,
            LAMBDA ip : GetDeviceByIP(rows, ip) # {})

\* loadDevices: every row is put in the Map with the status 'unknown'.
LoadDevices(S) ==
  LET ips == GetAllDevices(S.dbDevices)
      IdAt(ip) == CHOOSE i \in GetDeviceByIP(S.dbDevices, ip) : TRUE
  IN [S EXCEPT !.order = ips,
               !.devices = [ip \in Range(ips) |->
                              [id |-> IdAt(ip), ip |-> ip, status |-> "unknown",
                               community |-> S.dbDevices[IdAt(ip)].community]]]

\* createLocalhostDevice, on a host whose primary interface is the loopback.
CreateLocalhostDevice ==
  [id |-> "localhost", ip |-> LocalIp, status |-> "online", community |-> "local"]

\* The Map has a device with isLocal.
HasLocalhost(S) == \E ip \in DOMAIN S.devices : S.devices[ip].id = "localhost"

\* A mutant of InitializeLocalDevice: no local device is created.
InitializeLocalDeviceNever(S, ok) == S

\* initializeLocalDevice; ok tells whether its saveDevice succeeds.
InitializeLocalDevice(S, ok) ==
  IF HasLocalhost(S) \/ ~ok
  THEN S
  ELSE MapSet(DbSaveDevice(S, CreateLocalhostDevice, "unknown"),
              LocalIp, CreateLocalhostDevice)

\* Array.from(currentDevices.values()) in state S
SnapshotOf(S) == [i \in DOMAIN S.order |-> S.devices[S.order[i]]]

\* initialize(): loadConfiguration, loadDevices, initializeLocalDevice and
\* start() up to the first await of the initial cycle.
Initialize(ok) ==
  /\ ~initialized
  /\ refreshInterval' = LoadRefreshInterval(dbConfiguration, refreshInterval)
  /\ thresholds' = LoadThresholds(dbConfiguration, thresholds)
  /\ timers' = Append(timers, refreshInterval')
  /\ armedTimers' = armedTimers + 1
  /\ LET L == LoadDevices(AlertState)
         S == InitializeLocalDevice(L, ok)
     IN /\ ok \/ (~HasLocalhost(L) /\ dbFailures < MaxDbFailures)
        /\ dbFailures' = IF ok THEN dbFailures ELSE dbFailures + 1
        /\ IF SnapshotOf(S) = <<>>
           THEN /\ SetAlertState(BroadcastToClients(S, "monitoringUpdate"))
                /\ UNCHANGED cycles
           ELSE /\ SetAlertState(S)
                /\ cycles' = cycles @@
                               (0 :> [snapshot |-> SnapshotOf(S), idx |-> 1,
                                      pc |-> "collect", metrics |-> NoSample,
                                      collectedAt |-> 0, results |-> <<>>])
  /\ initialized' = TRUE
  /\ initializing' = TRUE
  /\ isRunning' = TRUE
  /\ monitoringTimer' = TRUE
  /\ UNCHANGED <<pending, autoQueue, createCalls, scanInProgress, ticks,
                 scanVars, clientVars, deviceCount, now, dbConfiguration,
                 cleanupTask, dbClosed, metricVars>>

BootNext ==
  \/ \E ok \in BOOLEAN : Initialize(ok)
  \/ Tick
  \/ \E c \in DOMAIN cycles : \E m \in Samples(CurrentDevice(c)) :
       MonitorCollect(c, m)
  \/ \E c \in DOMAIN cycles : \E fail, failOffline \in FailPoints :
       MonitorFinish(c, fail, failOffline)

\* Weak fairness of the loop body of the initial cycle, WF_vars of MonitorFinish
\* with its enabling condition written out: the cycle is at "finish".
FinishFair ==
  \/ []<>~(0 \in DOMAIN cycles /\ cycles[0].pc = "finish")
  \/ []<><<\E fail, failOffline \in FailPoints :
              MonitorFinish(0, fail, failOffline)>>_vars

\* initialize() runs to its end and the initial cycle goes on: the collection
\* of the metrics settles and the loop body runs after it.
SpecBoot ==
  /\ InitBoot
  /\ [][BootNext]_vars
  /\ WF_vars(\E ok \in BOOLEAN : Initialize(ok))
  /\ WF_vars(\E m \in LocalSamples \cup RemoteSamples \cup UnreachableSamples :
               MonitorCollect(0, m))
  /\ FinishFair

-----------------------------------------------------------------------------
(* The configuration route *)

\* The timers setInterval may arm.
MaxTimers == 2

\* The configuration tables initialize() may find: the default rows, a
\* refresh interval of 3 seconds, a critical cpu threshold of 150.
ConfigStores ==
  {DefaultConfiguration,
   [DefaultConfiguration EXCEPT !["refresh_interval"] = Str(3)],
   [DefaultConfiguration EXCEPT !["cpu_critical_threshold"] = Str(150)]}

\* The state before initialize(), the devices table holding the local and a
\* remote device.
InitConfig ==
  /\ InitServices
  /\ currentDevices = <<>>
  /\ deviceOrder = <<>>
  /\ dbDevices = [id \in DeviceIds |-> [ip |-> IpOf(id), status |-> "unknown",
                                         community |-> CommunityOf(id)]]
  /\ initialized = FALSE
  /\ dbConfiguration \in ConfigStores

\* The bodies PUT /api/system/configuration is sent.
Bodies ==
  {[k \in {"refresh_interval"} |-> Number(30)],
   [k \in {"refresh_interval"} |-> String(Str(30))],
   [k \in {"refresh_interval"} |-> Number(10)],
   [k \in {"refresh_interval"} |-> Number(3)],
   [k \in {"cpu_warning_threshold"} |-> Number(95)],
   [k \in {"cpu_warning_threshold", "cpu_critical_threshold"} |->
      IF k = "cpu_warning_threshold" THEN Number(95) ELSE Number(90)],
   [k \in {"cpu_warning_threshold", "cpu_critical_threshold"} |->
      IF k = "cpu_warning_threshold" THEN Number(60) ELSE Number(80)]}

\* The validators of the route.
ValidRanges(config) ==
  /\ "refresh_interval" \in DOMAIN config
       => IsInt(config["refresh_interval"], 5, 300)
  /\ \A r \in Resources, l \in {"warning", "critical"} :
       ThresholdKey[r][l] \in DOMAIN config
         => IsInt(config[ThresholdKey[r][l]], 1, 100)

\* The threshold relationships the route checks: those of the resources whose
\* two thresholds are both in the body.
ValidRelationships(config) ==
  \A r \in Resources :
    {ThresholdKey[r].warning, ThresholdKey[r].critical} \subseteq DOMAIN config
      => NumberOf(config[ThresholdKey[r].warning])
           < NumberOf(config[ThresholdKey[r].critical])

\* setConfiguration for every entry of the body
SetConfiguration(rows, config) ==
  [k \in DOMAIN rows \cup DOMAIN config |->
     IF k \in DOMAIN config THEN ValueToString(config[k]) ELSE rows[k]]

\* The condition of updateConfiguration for restarting the monitoring.
IntervalChanged(config, interval) ==
  /\ "refresh_interval" \in DOMAIN config
  /\ StrictNotEqual(config["refresh_interval"], interval)

\* PUT /api/system/configuration and updateConfiguration: stop() and start()
\* up to the first await of the initial cycle included.
UpdateConfiguration(config) ==
  /\ initialized
  /\ IF ~(ValidRanges(config) /\ ValidRelationships(config))
     THEN /\ response' = "400"
          /\ UNCHANGED <<configVars, isRunning, monitoringTimer, cycles, broadcasts>>
     ELSE LET rows == SetConfiguration(dbConfiguration, config)
              interval == LoadRefreshInterval(rows, refreshInterval)
          IN /\ dbConfiguration' = rows
             /\ refreshInterval' = interval
             /\ thresholds' = LoadThresholds(rows, thresholds)
             /\ response' = "200"
             /\ IF IntervalChanged(config, interval)
                THEN /\ Len(timers) < MaxTimers
                     /\ Cardinality(DOMAIN cycles) < MaxCycles
                     /\ isRunning' = TRUE
                     /\ monitoringTimer' = TRUE
                     /\ timers' = Append(timers, interval)
                     /\ armedTimers' = IF isRunning /\ monitoringTimer
                                       THEN armedTimers ELSE armedTimers + 1
                     /\ cleanupTask' = IF isRunning THEN "null" ELSE cleanupTask
                     /\ PerformMonitoringCycle(MaxTicks + Len(timers))
                ELSE UNCHANGED <<timers, isRunning, monitoringTimer, cycles,
                                 broadcasts, armedTimers, cleanupTask>>
             /\ UNCHANGED <<dbClosed, initializing, metricVars>>
  /\ UNCHANGED <<alerts, activeAlerts, alertHistory, nextId, dbAlerts, pending,
                 autoQueue, emitted, dbFailures, createCalls, currentDevices,
                 deviceOrder, dbDevices, scanInProgress, ticks, isScanning, scans,
                 dbScanHistory, clientVars, bootVars, now>>

ConfigNext ==
  \/ \E ok \in BOOLEAN : Initialize(ok)
  \/ \E config \in Bodies : UpdateConfiguration(config)
  \/ Tick
  \/ \E c \in DOMAIN cycles : \E m \in QuietSamples(CurrentDevice(c)) :
       MonitorCollect(c, m)
  \/ \E c \in DOMAIN cycles : MonitorFinish(c, "none", "none")

SpecConfig == InitConfig /\ [][ConfigNext]_vars

----------------------------------------------------------------------------
(* Listing alerts *)

\* DatabaseManager.getAlerts with its acknowledged option, given as the set of
\* the flags it lets through: both when the option is null.
DbGetAlerts(flags) == {i \in DOMAIN dbAlerts : dbAlerts[i].acknowledged \in flags}

\* AlertManager.getActiveAlerts with filters.acknowledged, given the same way.
GetActiveAlerts(flags) == {i \in activeAlerts : alerts[i].acknowledged \in flags}

\* GET /api/alerts with the query's acknowledged ("none" when it has none): the
\* rows of the database and the active alerts, by id.  Without the filter the
\* route hands null to getActiveAlerts, and no alert's flag is null.
ListAlerts(acknowledged) ==
  CASE acknowledged = "true" -> DbGetAlerts({TRUE}) \cup GetActiveAlerts({TRUE})
    [] acknowledged = "false" -> DbGetAlerts({FALSE}) \cup GetActiveAlerts({FALSE})
    [] OTHER -> DbGetAlerts(BOOLEAN) \cup GetActiveAlerts({})

----------------------------------------------------------------------------
(* Claims about the alert manager *)

KeyOf(a) == <<a.deviceId, a.type, a.severity>>

ActiveWithKey(k) == {i \in activeAlerts : KeyOf(alerts[i]) = k}

AllKeys == DeviceIds \X AlertTypes \X Severities

\* C1 as stated: the active set holds at most one alert per
\* (device_id, type, severity); no database call needs to fail for the states
\* that are looked at.
C1_AtMostOneActivePerKey ==
  dbFailures = 0 => \A k \in AllKeys : Cardinality(ActiveWithKey(k)) <= 1

\* C1, amended: the active set holds at most one alert that is not acknowledged
\* per (device_id, type, severity), whatever sequence of Create, Ack, Resolve,
\* Delete and AutoResolve calls led to the state; an acknowledged alert does not
\* count, and a Create after it inserts a second alert with the same key.
C1_AtMostOneUnacknowledgedPerKey ==
  \A k \in AllKeys :
    Cardinality({i \in ActiveWithKey(k) : ~alerts[i].acknowledged}) <= 1

\* Two active alerts share a key: an acknowledged one and the one created after it.
C1_Witness ==
  \E i, j \in activeAlerts :
    /\ i # j
    /\ KeyOf(alerts[i]) = KeyOf(alerts[j])
    /\ alerts[i].acknowledged
    /\ ~alerts[j].acknowledged

SavesOfKey(k) == {p \in pending : p.kind = "save" /\ KeyOf(p.alert) = k}

RowsOfKey(k) ==
  {i \in DOMAIN dbAlerts :
     <<dbAlerts[i].device_id, dbAlerts[i].type, dbAlerts[i].severity>> = k}

\* C2: when n createAlert calls with the same key run concurrently against an
\* active set with no matching alert, under every interleaving exactly one alert
\* with the key is in the active set, its occurrenceCount is n, and exactly one
\* row is written for it: either its saveAlert is still awaited or the row is in
\* the table, never both and never two rows.
C2_ConcurrentCreateOnce ==
  \A k \in CreateKeys :
    createCalls[k] > 0 =>
      /\ Cardinality(ActiveWithKey(k)) = 1
      /\ \A i \in ActiveWithKey(k) :
           /\ alerts[i].occurrenceCount = createCalls[k]
           /\ (i \in RowsOfKey(k)) # (\E p \in SavesOfKey(k) : p.id = i)
      /\ Cardinality(RowsOfKey(k)) + Cardinality(SavesOfKey(k)) = 1

\* Several calls with one key have returned and the row is in the table, while
\* another key has calls too.
C2_Witness ==
  \E k \in CreateKeys :
    /\ createCalls[k] >= 2
    /\ SavesOfKey(k) = {}
    /\ Cardinality(RowsOfKey(k)) = 1
    /\ \E k2 \in CreateKeys \ {k} : createCalls[k2] >= 2

ResolveSettled(i) ==
  /\ i \in Range(alertHistory)
  /\ ~\E p \in pending : p.id = i
  /\ i \in DOMAIN dbAlerts
  /\ dbAlerts[i].resolved

\* C5: once Resolve(id) has succeeded (the alert is in the history and its row
\* has resolved_at set), the id is not in the active set and is not in the
\* listing of the alerts filtered on acknowledged = false.
C5_ResolvedNotListed ==
  \A i \in DOMAIN alerts :
    ResolveSettled(i) => i \notin activeAlerts /\ i \notin ListAlerts("false")

(* ----------------------------------------------------------------------- *)
(* The monitoring cycle.                                                    *)
(* ----------------------------------------------------------------------- *)

\* This step ends the poll of the current device of cycle c.
PollEnds(c) ==
  /\ cycles[c].pc = "finish"
  /\ c \in DOMAIN cycles' => cycles'[c].idx # cycles[c].idx

\* This step ends the poll of the current device of cycle c, and monitorDevice
\* returned its result.
PollSucceeds(c) ==
  \E fail \in {"none", "saveAlert"} : MonitorFinish(c, fail, "none")

\* The alerts of the device and type that were active when the metrics of the
\* poll were collected.
EarlierAlerts(c, t) ==
  {i \in activeAlerts : /\ alerts[i].deviceId = CurrentDevice(c).id
                        /\ alerts[i].type = t
                        /\ i < cycles[c].collectedAt}

\* C3: when a poll of a device succeeds with a usage of cpu, memory or disk
\* below the warning threshold, the alerts of that type which were active for
\* the device when the poll was made are no longer active at the end of the
\* poll, and are resolved.
C3_RecoveryResolves ==
  [][\A c \in DOMAIN cycles : \A t \in {"cpu", "memory", "disk"} :
       ( /\ PollSucceeds(c)
         /\ cycles[c].metrics.system
         /\ cycles[c].metrics[t].ok
         /\ cycles[c].metrics[t].usage < Thresholds[t].warning )
       => \A i \in EarlierAlerts(c, t) :
            /\ i \notin activeAlerts'
            /\ i \in DOMAIN alerts' /\ alerts'[i].resolved]_vars

OfflineAlerts(id) ==
  {i \in activeAlerts : KeyOf(alerts[i]) = <<id, "offline", "critical">>}

\* C4: when the poll of a remote device whose every SNMP query failed ends,
\* the device is offline in the registry and in the devices table, exactly one
\* offline/critical alert is active for it, and hostOffline has been broadcast.
C4_UnreachableGoesOffline ==
  [][\A c \in DOMAIN cycles :
       ( /\ PollEnds(c)
         /\ CurrentDevice(c).ip # LocalIp
         /\ cycles[c].metrics \in UnreachableSamples
         /\ dbFailures' = 0 )
       => /\ currentDevices'[CurrentDevice(c).ip].status = "offline"
          /\ dbDevices'[CurrentDevice(c).id].status = "offline"
          /\ Cardinality(OfflineAlerts(CurrentDevice(c).id)') = 1
          /\ broadcasts'["hostOffline"] > 0]_vars

\* C6: at most one monitoring cycle is in flight.
C6_AtMostOneCycleInFlight == Cardinality(DOMAIN cycles) <= 1

(* ----------------------------------------------------------------------- *)
(* Monitoring and scanning.                                                 *)
(* ----------------------------------------------------------------------- *)

\* C7: a firing of the timer while scanInProgress is true starts no poll,
\* writes nothing to the database and broadcasts no monitoringUpdate.
C7_TickDuringScanSkipped ==
  [][(ticks' = ticks + 1 /\ scanInProgress)
       => /\ cycles' = cycles
          /\ dbDevices' = dbDevices
          /\ dbAlerts' = dbAlerts
          /\ dbScanHistory' = dbScanHistory
          /\ broadcasts'["monitoringUpdate"] = broadcasts["monitoringUpdate"]]_vars

\* The timer fired during a scan: of the first cycle and the cycles of the
\* firings, one neither is in flight nor has broadcast its monitoringUpdate.
C7_Witness ==
  /\ scanInProgress
  /\ ticks >= 1
  /\ dbFailures = 0
  /\ broadcasts["monitoringUpdate"] + Cardinality(DOMAIN cycles) < 1 + ticks

\* The scans whose batches are still executing.
Executing == {s \in DOMAIN scans : scans[s].pc \in {"probing", "delay"}}

\* C8: at most one scan executes at a time.
C8_AtMostOneScanExecuting == Cardinality(Executing) <= 1

\* C9: once a scan has been stopped, it starts no further batch and emits no
\* scanCompleted.
C9_StoppedScanStartsNothing ==
  [][\A s \in DOMAIN scans :
       scans[s].stopRequested
       => /\ scans'[s].next = scans[s].next
          /\ scans'[s].pc # "completed"]_vars

\* C10: when scanCompleted has been emitted for a scan, no probe of the scan
\* is still running, and totalFound is the number of hostDiscovered events the
\* scan has emitted.
C10_CompletedAfterDiscoveries ==
  \A s \in DOMAIN scans :
    scans[s].pc = "completed"
    => /\ \A i \in DOMAIN scans[s].probes : scans[s].probes[i] = "done"
       /\ scans[s].totalFound = scans[s].hostEvents
       /\ scans[s].totalFound = Len(scans[s].discovered)

C10_Witness ==
  \E s \in DOMAIN scans :
    /\ scans[s].pc = "completed"
    /\ Len(scans[s].ips) = 3
    /\ scans[s].hostEvents = 2

\* This step ends cycle c.
CycleEnds(c) == c \in DOMAIN cycles /\ c \notin DOMAIN cycles'

\* C11: a cycle ends only after the last device of its snapshot has been
\* polled, whatever failed on the way, and it then broadcasts one
\* monitoringUpdate.
C11_FailureDoesNotAbortCycle ==
  [][\A c \in DOMAIN cycles :
       CycleEnds(c)
       => /\ cycles[c].idx = Len(cycles[c].snapshot)
          /\ broadcasts'["monitoringUpdate"] = broadcasts["monitoringUpdate"] + 1]_vars

(* ----------------------------------------------------------------------- *)
(* The broadcaster.                                                         *)
(* ----------------------------------------------------------------------- *)

\* C12: after a broadcast, every subscribed client whose socket was not open
\* or whose send threw has been removed, every subscribed client whose send
\* succeeded is still subscribed and was sent the message once, whatever the
\* other clients did, and nobody else was sent anything.
C12_PublishEvictsAndDelivers ==
  [][broadcasts' # broadcasts
       => \A ws \in Clients :
            IF ws \in webSocketClients /\ readyState[ws] = "open"
            THEN ws \in webSocketClients' /\ received'[ws] = received[ws] + 1
            ELSE ws \notin webSocketClients' /\ received'[ws] = received[ws]]_vars

\* Two clients were sent both messages while a third, which was sent the
\* first, broke and is no longer subscribed.
C12_Witness ==
  \E a, b, c \in webSocketClients \cup {ws \in Clients : readyState[ws] = "broken"} :
    /\ a # b
    /\ {a, b} \subseteq webSocketClients
    /\ received[a] = 2 /\ received[b] = 2
    /\ readyState[c] = "broken" /\ c \notin webSocketClients /\ received[c] = 1

\* The events of the scanner and of the alert manager.
ComponentEvents ==
  {"scanStarted", "scanProgress", "hostDiscovered", "scanCompleted", "scanStopped",
   "scanError", "alertCreated", "alertAcknowledged", "alertResolved", "alertDeleted"}

\* C13: once no handler is awaiting the database, every event the scanner or
\* the alert manager has emitted has been broadcast.
C13_EmittedEventsBroadcast ==
  (pending = {} /\ dbFailures = 0)
  => \A ev \in ComponentEvents : broadcasts[ev] = emitted[ev]

\* The devices of the registry and the rows of the Store with the id "localhost".
LocalDevices == {ip \in DOMAIN currentDevices : currentDevices[ip].id = "localhost"}

LocalRows == {id \in DOMAIN dbDevices : id = "localhost"}

\* C14: whatever devices are added, updated, deleted, discovered and polled,
\* exactly one device has the id "localhost" and no two devices have the same
\* ip, in the registry and in the Store.
C14_OneLocalhostUniqueIps ==
  /\ Cardinality(LocalDevices) = 1
  /\ Cardinality(LocalRows) = 1
  /\ \A a, b \in DOMAIN currentDevices :
       a # b => currentDevices[a].ip # currentDevices[b].ip
  /\ \A a, b \in DOMAIN dbDevices : a # b => dbDevices[a].ip # dbDevices[b].ip

\* The only device, in the registry and in the Store, is the local one, online.
ColdStarted ==
  /\ initialized
  /\ 0 \notin DOMAIN cycles
  /\ Snapshot = <<CreateLocalhostDevice>>
  /\ DOMAIN dbDevices = {"localhost"}
  /\ dbDevices["localhost"] =
       [ip |-> LocalIp, status |-> "online", community |-> "local"]

C16_TimestampsInOrder ==
  \A i \in DOMAIN alerts :
    /\ alerts[i].acknowledgedAt # NoTime
         => alerts[i].createdAt <= alerts[i].acknowledgedAt
    /\ (alerts[i].acknowledgedAt # NoTime /\ alerts[i].resolvedAt # NoTime)
         => alerts[i].acknowledgedAt <= alerts[i].resolvedAt

\* C17: for cpu, memory and disk the warning threshold is below the critical
\* one in every state after the configuration is loaded; a load or an update
\* that would break it leaves the thresholds as they were.
C17_WarningBelowCritical ==
  initialized => \A r \in Resources : thresholds[r].warning < thresholds[r].critical

\* C18: once the configuration is loaded, the refresh interval is within 5..300
\* seconds and every threshold within 1..100, whatever the configuration table
\* holds.
C18_ConfigurationInRange ==
  initialized =>
    /\ refreshInterval \in 5..300
    /\ \A r \in Resources, l \in {"warning", "critical"} : thresholds[r][l] \in 1..100

\* C19: an update of the configuration stops and re-arms the timer, with the
\* new interval, when it changes the refresh interval, and leaves the timer
\* alone when it does not.
C19_RestartIffIntervalChanged ==
  [][initialized =>
       /\ (timers' # timers) <=> (refreshInterval' # refreshInterval)
       /\ timers' # timers => timers'[Len(timers')] = refreshInterval']_vars

\* C20: acknowledging an alert that is already acknowledged is answered with a
\* conflict, acknowledging an id that is not in the active set with not found;
\* in both cases the active set, the alerts, the Store and the emitted events
\* stay as they were.
C20_RejectedAcknowledge ==
  [][\A id \in 1..MaxAlerts :
       (PostAcknowledge(id) /\ (id \notin activeAlerts \/ alerts[id].acknowledged))
         => /\ response' = IF id \in activeAlerts THEN "409" ELSE "404"
            /\ UNCHANGED <<alerts, activeAlerts, alertHistory, dbAlerts, emitted,
                           pending>>]_vars

C20_Witness ==
  /\ response = "409"
  /\ emitted["alertAcknowledged"] = 1
  /\ \E id \in activeAlerts : alerts[id].acknowledged

\* C21: resolving an alert that is already resolved is answered with a
\* conflict, not with not found, and changes neither the active set, the
\* history nor the Store.
C21_ResolvedTwiceConflict ==
  [][\A id \in 1..MaxAlerts :
       (PostResolve(id) /\ id \in DOMAIN alerts /\ alerts[id].resolved)
         => /\ response' = "409"
            /\ UNCHANGED <<activeAlerts, alertHistory, dbAlerts>>]_vars


C23_AutoResolveIdempotent ==
  [][\A d \in DeviceIds, t \in AutoTypes, v \in AutoValues,
        th \in AutoThresholds, ok \in BOOLEAN :
       AutoResolveAwaited(d, t, v, th, ok)
         => LET q2 == AlertsToResolve([alerts |-> alerts', active |-> activeAlerts'],
                                      d, t, v, th)
                S2 == AutoResolveAll(AlertState', q2, TRUE)
            IN /\ q2 = <<>>
               /\ S2.active = activeAlerts'
               /\ S2.history = alertHistory'
               /\ S2.db = dbAlerts']_vars

\* A call found nothing to resolve after a call that resolved two alerts.
C23_Witness ==
  /\ response = "0"
  /\ Len(alertHistory) = 2
  /\ activeAlerts = {}

\* The addresses parseIPRange makes of the range the route answered last.
ParsedIPs == ParseIPRangeChars(response.range.chars)

\* C24: an address yields that one address; a span A.B.C.D-N with D <= N
\* yields the N - D + 1 addresses A.B.C.D to A.B.C.N in ascending order; a
\* block A.B.C.D/24 yields the 254 addresses A.B.C.1 to A.B.C.254; hence
\* 192.168.1.1-1 yields one address and 192.168.1.1-254 yields 254.
C24_RangeParsing ==
  response.status = "200" =>
    /\ \A n \in Networks, h \in HostOctets :
         /\ response.range = String(Address(n, h))
              => /\ response.valid
                 /\ response.totalIPs = 1
                 /\ ParsedIPs = <<Address(n, h)>>
         /\ \A e \in EndOctets :
              (response.range = String(Span(n, h, e)) /\ h <= e /\ e <= 255)
                => /\ response.valid
                   /\ response.totalIPs = e - h + 1
                   /\ response.firstIP = Address(n, h)
                   /\ response.lastIP = Address(n, e)
                   /\ ParsedIPs = [i \in 1..(e - h + 1) |-> Address(n, h + i - 1)]
         /\ response.range = String(Block(n, h, 24))
              => /\ response.valid
                 /\ response.totalIPs = 254
                 /\ ParsedIPs = [i \in 1..254 |-> Address(n, i)]
    /\ response.range = String(Span(<<192, 168, 1>>, 1, 1)) => response.totalIPs = 1
    /\ response.range = String(Span(<<192, 168, 1>>, 1, 254)) => response.totalIPs = 254

\* The route has answered for 192.168.1.1-254.
C24_Witness ==
  /\ response.status = "200"
  /\ response.range = String(Span(<<192, 168, 1>>, 1, 254))
  /\ response.totalIPs = 254
  /\ response.lastIP = Address(<<192, 168, 1>>, 254)

\* C25: a range string of none of the three forms A.B.C.D, A.B.C.D-N with
\* D <= N <= 255 and A.B.C.D/24 (a word that is no address, a block that is
\* not a /24, an end octet below the start or above 255) is answered
\* valid = false by the validation of ranges.
C25_InvalidRangeRejected ==
  LET IsOctet(str) ==
        /\ Len(str) \in 1..3
        /\ \A i \in DOMAIN str : str[i] \in Range(Digits)
        /\ ParseInt(str) <= 255
      IsAddress(str) ==
        LET parts == Split(str, ".")
        IN Len(parts) = 4 /\ \A i \in 1..4 : IsOctet(parts[i])
      InGrammar(str) ==
        \/ IsAddress(str)
        \/ LET parts == Split(str, "-")
           IN /\ Len(parts) = 2
              /\ IsAddress(parts[1])
              /\ IsOctet(parts[2])
              /\ ParseInt(Split(parts[1], ".")[4]) <= ParseInt(parts[2])
        \/ LET parts == Split(str, "/")
           IN Len(parts) = 2 /\ IsAddress(parts[1]) /\ parts[2] = <<"2", "4">>
  IN (/\ response.status = "200"
      /\ response.range.type = "string"
      /\ ~InGrammar(response.range.chars))
       => ~response.valid

\* C26: when processDiscoveredHost has finished for a host, exactly one device
\* with the address of the host is in the registry and in the Store: the
\* device the Store had, with its id, marked online; or else a new device whose
\* community is the first of public, private, monitoring that the SNMP agent
\* answered, public when it answered none. So it is also when the Store refuses
\* the write of one community.
C26_DiscoveredHostRegistered ==
  [][\A ip \in Ips, answers \in SUBSET Range(Communities), failAt \in SaveFailures \ {"basic"} :
       ProcessDiscoveredHost(ip, answers, failAt)
         => LET known == GetDeviceByIP(dbDevices, ip)
                rows == GetDeviceByIP(dbDevices', ip)
                first == IF answers = {} THEN "public"
                         ELSE Communities[Min({i \in 1..3 : Communities[i] \in answers})]
            IN /\ Cardinality(rows) = 1
               /\ ip \in DOMAIN currentDevices'
               /\ currentDevices'[ip].ip = ip
               /\ currentDevices'[ip].id \in rows
               /\ currentDevices'[ip].status = "online"
               /\ \A id \in rows : dbDevices'[id].status = "online"
               /\ known # {} => rows = known
               /\ known = {} => /\ currentDevices'[ip].community = first
                                /\ \A id \in rows : dbDevices'[id].community = first]_vars

C28_StatusFromAlerts ==
  [][\A c \in DOMAIN cycles, fail \in {"none", "saveAlert"} :
       MonitorFinish(c, fail, "none")
         => LET dev == cycles[c].snapshot[cycles[c].idx]
                open == {i \in activeAlerts' :
                           alerts'[i].deviceId = dev.id /\ ~alerts'[i].acknowledged}
                expected ==
                  IF \E i \in open : alerts'[i].severity = "critical" THEN "critical"
                  ELSE IF \E i \in open : alerts'[i].severity = "warning" THEN "warning"
                  ELSE "online"
            IN /\ currentDevices'[dev.ip].status = expected
               /\ dbDevices'[dev.id].status = expected]_vars

\* C29: no alert of the in-memory active set is resolved: an alert that was
\* resolved before a restart is not active after it.
C29_ActiveAlertsUnresolved ==
  \A i \in activeAlerts : ~alerts[i].resolved /\ alerts[i].resolvedAt = NoTime

\* C30: an active alert whose row the Store did not take gets its row later:
\* the ticks that raise the same device, type and severity write it again, so
\* every active alert eventually has a row.
C30_EventuallyStored ==
  \A i \in 1..MaxAlerts :
    (i \in activeAlerts /\ i \notin DOMAIN dbAlerts) ~> (i \in DOMAIN dbAlerts)
----------------------------------------------------------------------------
(* Stopping, restarting and shutting down the monitoring service *)

\* A mutant of Stop: the interval timer is not cleared.
StopKeepsTimer ==
  IF ~isRunning
  THEN UNCHANGED <<isRunning, monitoringTimer, armedTimers, cleanupTask>>
  ELSE /\ isRunning' = FALSE
       /\ cleanupTask' = "null"
       /\ UNCHANGED <<monitoringTimer, armedTimers>>

\* stop(): nothing when the service is not running; else the timer is cleared
\* and the cron task is stopped. The cycles in flight are left alone.
Stop ==
  IF ~isRunning
  THEN UNCHANGED <<isRunning, monitoringTimer, armedTimers, cleanupTask>>
  ELSE /\ isRunning' = FALSE
       /\ monitoringTimer' = FALSE
       /\ armedTimers' = IF monitoringTimer THEN armedTimers - 1 ELSE armedTimers
       /\ cleanupTask' = "null"

\* initialize() after its start() has returned, which is when the initial
\* cycle is over: the maintenance is scheduled. startServer then listens.
InitializeReturns ==
  /\ initializing
  /\ 0 \notin DOMAIN cycles
  /\ initializing' = FALSE
  /\ cleanupTask' = "scheduled"
  /\ UNCHANGED <<alerts, activeAlerts, alertHistory, nextId, dbAlerts, pending,
                 autoQueue, emitted, broadcasts, dbFailures, createCalls,
                 currentDevices, deviceOrder, dbDevices, monitorVars, scanVars,
                 clientVars, bootVars, now, refreshInterval, thresholds,
                 dbConfiguration, timers, armedTimers, dbClosed, metricVars>>

\* POST /api/system/monitoring/start: 409 when the service is running, else
\* start().
PostMonitoringStart ==
  /\ ~initializing
  /\ initialized
  /\ IF isRunning
     THEN /\ response' = "409 already running"
          /\ UNCHANGED <<alerts, activeAlerts, alertHistory, nextId, dbAlerts,
                         pending, autoQueue, emitted, broadcasts, dbFailures,
                         createCalls, currentDevices, deviceOrder, dbDevices,
                         monitorVars, isScanning, scans, dbScanHistory, clientVars,
                         bootVars, now, configVars>>
     ELSE /\ Len(timers) < MaxTimers
          /\ Cardinality(DOMAIN cycles) < MaxCycles
          /\ Start

\* POST /api/system/monitoring/stop: 409 when the service is not running, else
\* stop().
PostMonitoringStop ==
  /\ ~initializing
  /\ initialized
  /\ Stop
  /\ response' = IF isRunning THEN "200" ELSE "409 not running"
  /\ UNCHANGED <<alerts, activeAlerts, alertHistory, nextId, dbAlerts, pending,
                 autoQueue, emitted, broadcasts, dbFailures, createCalls,
                 currentDevices, deviceOrder, dbDevices, scanInProgress, ticks,
                 cycles, isScanning, scans, dbScanHistory, clientVars, bootVars,
                 now, refreshInterval, thresholds, dbConfiguration, timers,
                 dbClosed, initializing, metricVars>>

\* The SIGTERM and SIGINT handlers: stop() and then close() of the database.
\* The process exits when the HTTP server has closed, which waits for the
\* connections that are open.
Shutdown ==
  /\ ~dbClosed
  /\ Stop
  /\ dbClosed' = TRUE
  /\ UNCHANGED <<alerts, activeAlerts, alertHistory, nextId, dbAlerts, pending,
                 autoQueue, emitted, broadcasts, dbFailures, createCalls,
                 currentDevices, deviceOrder, dbDevices, scanInProgress, ticks,
                 cycles, scanVars, clientVars, bootVars, now, refreshInterval,
                 thresholds, dbConfiguration, timers, initializing, metricVars>>

\* The first database call a poll with the metrics m makes.
FirstCall(m) ==
  IF m.system THEN "saveDevice"
  ELSE IF m.cpu.ok \/ m.memory.ok \/ m.disk.ok THEN "saveMetrics"
  ELSE "updateDeviceStatus"

\* The rest of the loop body for the current device of cycle c when the
\* database is closed: every call of the database is rejected, the one of
\* monitorDevice and the one of the catch block, which ends the cycle.
MonitorFinishClosed(c) ==
  /\ dbClosed
  /\ c \in DOMAIN cycles
  /\ cycles[c].pc = "finish"
  /\ LET cy == cycles[c]
         dev == cy.snapshot[cy.idx]
         R == MonitorDevice(AlertState, dev, cy.metrics, FirstCall(cy.metrics))
         H == MarkOffline(R.S, dev, "updateDeviceStatus")
     IN /\ SetAlertState(H.S)
        /\ cycles' = Remove(cycles, c)
  /\ UNCHANGED <<pending, autoQueue, createCalls, dbFailures, isRunning,
                 monitoringTimer, scanInProgress, ticks, scanVars, clientVars,
                 bootVars, now, configVars>>

\* The bodies that change the interval.
IntervalBodies ==
  {[k \in {"refresh_interval"} |-> Number(30)],
   [k \in {"refresh_interval"} |-> Number(10)]}

\* The service from its start-up to its shutdown, with the routes that start,
\* stop and reconfigure it.
RunNext ==
  \/ ~dbClosed /\ Initialize(TRUE)
  \/ InitializeReturns
  \/ PostMonitoringStart
  \/ PostMonitoringStop
  \/ \E config \in IntervalBodies :
       ~initializing /\ ~dbClosed /\ UpdateConfiguration(config)
  \/ Shutdown
  \/ Tick
  \/ \E c \in DOMAIN cycles : \E m \in QuietSamples(CurrentDevice(c)) :
       MonitorCollect(c, m)
  \/ \E c \in DOMAIN cycles : ~dbClosed /\ MonitorFinish(c, "none", "none")
  \/ \E c \in DOMAIN cycles : MonitorFinishClosed(c)

SpecRun == InitConfig /\ [][RunNext]_vars

\* C31: once the shutdown has stopped the timer and closed the database, no
\* timer fires and no poll writes to the database or changes the registry.
C31_QuietAfterShutdown ==
  [][dbClosed =>
       /\ ticks' = ticks
       /\ dbDevices' = dbDevices
       /\ dbAlerts' = dbAlerts
       /\ currentDevices' = currentDevices
       /\ deviceOrder' = deviceOrder]_vars

C38_MaintenanceScheduled ==
  (initialized /\ ~initializing /\ isRunning) => cleanupTask = "scheduled"

----------------------------------------------------------------------------
(* The metrics table *)

MaxMetrics == 8      \* rows of the metrics table

\* monitorDevice: the samples it hands to saveMetrics.
MetricsToSave(m) ==
  (IF m.cpu.ok THEN <<[type |-> "cpu_usage", unit |-> "percent"]>> ELSE <<>>)
  \o (IF m.memory.ok
      THEN <<[type |-> "memory_usage", unit |-> "percent"],
             [type |-> "memory_total", unit |-> "bytes"],
             [type |-> "memory_used", unit |-> "bytes"]>>
      ELSE <<>>)
  \o (IF m.disk.ok
      THEN <<[type |-> "disk_usage", unit |-> "percent"],
             [type |-> "disk_total", unit |-> "bytes"],
             [type |-> "disk_used", unit |-> "bytes"]>>
      ELSE <<>>)

\* saveMetrics up to its prepare(): base is the number of rows of the table
\* when the call begins.
SaveMetrics(dev, m) ==
  /\ saving = NoBatch
  /\ MetricsToSave(m) # <<>>
  /\ Len(dbMetrics) + Len(MetricsToSave(m)) <= MaxMetrics
  /\ saving' = [device_id |-> dev.id, metrics |-> MetricsToSave(m), idx |-> 1,
                base |-> Len(dbMetrics)]
  /\ UNCHANGED <<alerts, activeAlerts, alertHistory, nextId, dbAlerts, pending,
                 autoQueue, emitted, broadcasts, dbFailures, createCalls,
                 currentDevices, deviceOrder, dbDevices, monitorVars, scanVars,
                 clientVars, bootVars, now, refreshInterval, thresholds,
                 dbConfiguration, timers, stopVars, dbMetrics>>

\* One turn of the loop of saveMetrics: the INSERT of runPrepared settles. A
\* rejected INSERT ends the loop, the statement is finalized and the error is
\* thrown; the rows written before stay.
RunPrepared(ok) ==
  /\ saving # NoBatch
  /\ ok \/ dbFailures < MaxDbFailures
  /\ IF ok
     THEN /\ dbMetrics' = Append(dbMetrics,
                                 [device_id |-> saving.device_id,
                                  metric_type |-> saving.metrics[saving.idx].type,
                                  unit |-> saving.metrics[saving.idx].unit])
          /\ saving' = IF saving.idx = Len(saving.metrics) THEN NoBatch
                       ELSE [saving EXCEPT !.idx = @ + 1]
          /\ UNCHANGED dbFailures
     ELSE /\ saving' = NoBatch
          /\ dbFailures' = dbFailures + 1
          /\ UNCHANGED dbMetrics
  /\ UNCHANGED <<alerts, activeAlerts, alertHistory, nextId, dbAlerts, pending,
                 autoQueue, emitted, broadcasts, createCalls,
                 currentDevices, deviceOrder, dbDevices, monitorVars, scanVars,
                 clientVars, bootVars, now, refreshInterval, thresholds,
                 dbConfiguration, timers, stopVars>>

MetricsNext ==
  \/ \E ip \in DOMAIN currentDevices : \E m \in Samples(currentDevices[ip]) :
       SaveMetrics(currentDevices[ip], m)
  \/ \E ok \in BOOLEAN : RunPrepared(ok)

SpecMetrics == Init /\ [][MetricsNext]_vars

\* C32: a reader of the metrics table sees no row of a batch that is being
\* written, and a batch one of whose samples is rejected leaves no row.
C32_BatchAtomic ==
  /\ [](saving # NoBatch => Len(dbMetrics) = saving.base)
  /\ [][RunPrepared(FALSE) => Len(dbMetrics') = saving.base]_vars

----------------------------------------------------------------------------
(* The timestamps of the devices table *)

Hostnames == {"host", "gateway"}

\* The devices table with its hostname, first_seen and last_seen columns.
InitUpsert ==
  /\ InitServices
  /\ currentDevices = <<>>
  /\ deviceOrder = <<>>
  /\ dbDevices = [id \in DeviceIds |->
                    [ip |-> IpOf(id), hostname |-> "host", status |-> "unknown",
                     community |-> CommunityOf(id), first_seen |-> now,
                     last_seen |-> now]]
  /\ initialized = FALSE
  /\ dbConfiguration = DefaultConfiguration

\* getDevice: SELECT * FROM devices WHERE id = ?
GetDevice(rows, id) == [id |-> id] @@ rows[id]

\* saveDevice: INSERT OR REPLACE with the columns id, ip, hostname, community,
\* status, last_seen and updated_at. The row with that id is replaced, so
\* first_seen, which is not among the columns, gets its default
\* CURRENT_TIMESTAMP.
SaveDevice(rows, deviceData, t) ==
  ReplaceRow(rows, deviceData.id,
             [ip |-> deviceData.ip, hostname |-> deviceData.hostname,
              status |-> deviceData.status, community |-> deviceData.community,
              first_seen |-> t, last_seen |-> t])

\* The devices saveDevice is given: a row of the table as getDevice returns
\* it, or that row with another hostname or status.
DeviceData ==
  {[GetDevice(dbDevices, id) EXCEPT !.hostname = h, !.status = s] :
     id \in DOMAIN dbDevices, h \in Hostnames,
     s \in {"unknown", "online", "offline"}}

\* A saveDevice call.
UpsertDevice(deviceData) ==
  /\ dbDevices' = SaveDevice(dbDevices, deviceData, now)
  /\ UNCHANGED <<alerts, activeAlerts, alertHistory, nextId, dbAlerts, pending,
                 autoQueue, emitted, broadcasts, dbFailures, createCalls,
                 currentDevices, deviceOrder, monitorVars, scanVars, clientVars,
                 bootVars, now, configVars>>

\* DatabaseManager.updateDeviceStatus: UPDATE devices SET status = ?,
\* last_seen = CURRENT_TIMESTAMP WHERE id = ?
DbUpdateDeviceStatus(id, status) ==
  /\ dbDevices' = [i \in DOMAIN dbDevices |->
                     IF i = id
                     THEN [dbDevices[i] EXCEPT !.status = status, !.last_seen = now]
                     ELSE dbDevices[i]]
  /\ UNCHANGED <<alerts, activeAlerts, alertHistory, nextId, dbAlerts, pending,
                 autoQueue, emitted, broadcasts, dbFailures, createCalls,
                 currentDevices, deviceOrder, monitorVars, scanVars, clientVars,
                 bootVars, now, configVars>>

UpsertNext ==
  \/ \E deviceData \in DeviceData : UpsertDevice(deviceData)
  \/ \E id \in DeviceIds : \E status \in {"online", "offline"} :
       DbUpdateDeviceStatus(id, status)
  \/ Tock

SpecUpsert == InitUpsert /\ [][UpsertNext]_vars

\* C33: saveDevice of a device whose id has a row leaves first_seen of the row
\* as it was and sets last_seen to the current time; saving the device that
\* getDevice returns changes last_seen only.
C33_UpsertKeepsFirstSeen ==
  [][\A deviceData \in DeviceData :
       UpsertDevice(deviceData) =>
         LET id == deviceData.id
         IN /\ dbDevices'[id].first_seen = dbDevices[id].first_seen
            /\ dbDevices'[id].last_seen = now
            /\ deviceData = GetDevice(dbDevices, id) =>
                 dbDevices'[id] = [dbDevices[id] EXCEPT !.last_seen = now]]_vars

----------------------------------------------------------------------------
(* Scans that run to their end *)

\* The steps of a scan that do not wait for a request: its pings, its port
\* scans, its delays and the write of its history.
ScanSteps ==
  \/ \E s \in DOMAIN scans : \E i \in DOMAIN scans[s].probes :
       \E outcome \in {"alive", "dead", "error"} : PingSettles(s, i, outcome)
  \/ \E s \in DOMAIN scans : \E i \in DOMAIN scans[s].probes : PortsSettle(s, i)
  \/ \E s \in DOMAIN scans : DelayEnds(s)
  \/ \E ok \in BOOLEAN : ScanHistorySettles(ok)

\* Every ping, port scan, delay and database write ends.
SpecScanFair == Init /\ [][ScanNext]_vars /\ WF_vars(ScanSteps)

\* C34: once a scan has completed, was stopped or has failed, scanInProgress
\* becomes false.
C34_ScanEndClearsFlag ==
  \A s \in 1..MaxScans :
    (s \in DOMAIN scans /\ (scans[s].pc \in {"completed", "failed"}
                            \/ scans[s].stopRequested))
      ~> ~scanInProgress

\* C35: the end of a poll puts no device into the registry or the devices
\* table: a device that was deleted while it was polled stays deleted.
C35_DeletedStaysDeleted ==
  [][\A c \in DOMAIN cycles :
       MonitorFinish(c, "none", "none") =>
         /\ DOMAIN dbDevices' \subseteq DOMAIN dbDevices
         /\ DOMAIN currentDevices' \subseteq DOMAIN currentDevices]_vars

----------------------------------------------------------------------------
(* Deleting a device that has alerts *)

\* The monitoring cycles, whose polls raise alerts, and the deletion of
\* devices.
CascadeNext ==
  \/ Start
  \/ Tick
  \/ \E c \in DOMAIN cycles : \E m \in Samples(CurrentDevice(c)) :
       MonitorCollect(c, m)
  \/ \E c \in DOMAIN cycles : MonitorFinish(c, "none", "none")
  \/ \E id \in DOMAIN dbDevices \cup {"u2"} : DeleteDevice(id)

SpecCascade == Init /\ [][CascadeNext]_vars

\* C39: every alert of the active set is an alert of a device that has a row
\* in the devices table.
C39_ActiveAlertsHaveDevice ==
  \A i \in activeAlerts : alerts[i].deviceId \in DOMAIN dbDevices

----------------------------------------------------------------------------
(* The history of resolved alerts *)

\* The operations of the alert manager, and restarts of the process.
HistoryNext ==
  \/ AlertNext
  \/ Restart

SpecHistory == Init /\ [][HistoryNext]_vars

\* C40: no alert is both in the active set and in the history, every alert of
\* the history has its resolvedAt, and the step that resolves an alert, by
\* resolveAlert or by autoResolveAlerts, puts it into the history once.
C40_HistoryOfResolved ==
  /\ [](/\ activeAlerts \cap Range(alertHistory) = {}
        /\ \A i \in DOMAIN alertHistory :
             alerts[alertHistory[i]].resolvedAt # NoTime)
  /\ [][\A id \in activeAlerts :
          (~alerts[id].resolved /\ id \in DOMAIN alerts' /\ alerts'[id].resolved)
            => /\ Cardinality({i \in DOMAIN alertHistory : alertHistory[i] = id}) = 0
               /\ Cardinality({i \in DOMAIN alertHistory' : alertHistory'[i] = id}) = 1
               /\ id \notin activeAlerts']_vars

\* An alert was resolved by autoResolveAlerts and is in the history while
\* another alert is active.
C40_Witness ==
  /\ alertHistory # <<>>
  /\ activeAlerts # {}
  /\ emitted["alertResolved"] >= 1
  /\ \E p \in pending : p.kind = "resolve" /\ p.auto

----------------------------------------------------------------------------
(* The start of the server: loadActiveAlerts is not awaited *)

\* A new process once the database calls of the old one have settled: the
\* constructor of AlertManager and initialize(), which calls loadActiveAlerts
\* and returns while its getAlerts is in flight. startServer goes on with the
\* monitoring service.
StartServer ==
  /\ now < MaxTime
  /\ pending = {}
  /\ now' = now + 1
  /\ alerts' = <<>>
  /\ activeAlerts' = {}
  /\ alertHistory' = <<>>
  /\ autoQueue' = <<>>
  /\ pending' = {[kind |-> "load", id |-> 0, auto |-> FALSE]}
  /\ UNCHANGED <<nextId, dbAlerts, emitted, broadcasts, dbFailures,
                 createCalls, currentDevices, deviceOrder, dbDevices,
                 monitorVars, scanVars, clientVars, bootVars, configVars>>

\* getAlerts settles: loadActiveAlerts puts every row it got into the Map, or
\* logs the error.
LoadActiveAlertsSettles(ok) ==
  \E p \in pending :
    /\ p.kind = "load"
    /\ DbOutcome(ok)
    /\ pending' = pending \ {p}
    /\ LET loaded == IF ok THEN LoadedAlerts(dbAlerts) ELSE {}
       IN /\ alerts' = [i \in DOMAIN alerts \cup loaded |->
                          IF i \in loaded THEN LoadedAlert(i, dbAlerts[i])
                          ELSE alerts[i]]
          /\ activeAlerts' = activeAlerts \cup loaded
    /\ UNCHANGED <<alertHistory, nextId, dbAlerts, autoQueue, emitted, broadcasts,
                   createCalls, currentDevices, deviceOrder, dbDevices,
                   monitorVars, scanVars, clientVars, bootVars, now, configVars>>

\* The alerts the monitoring cycles raise before and after a restart.
StartupNext ==
  \/ \E s \in {"warning", "critical"} : CreateAlert("localhost", "cpu", s)
  \/ \E ok \in BOOLEAN : CreateAlertSettles(ok)
  \/ StartServer
  \/ \E ok \in BOOLEAN : LoadActiveAlertsSettles(ok)

SpecStartup == Init /\ [][StartupNext]_vars

\* C36: an unresolved alert that was stored before a restart is not raised a
\* second time after it: the alerts table never holds two unacknowledged
\* unresolved rows of one device, type and severity.
C36_NoDuplicateAfterRestart ==
  \A i, j \in DOMAIN dbAlerts :
    (/\ dbAlerts[i].device_id = dbAlerts[j].device_id
     /\ dbAlerts[i].type = dbAlerts[j].type
     /\ dbAlerts[i].severity = dbAlerts[j].severity
     /\ ~dbAlerts[i].acknowledged /\ ~dbAlerts[j].acknowledged
     /\ dbAlerts[i].resolved_at = NoTime /\ dbAlerts[j].resolved_at = NoTime)
    => i = j
====
